---- MODULE Spec2Model ----
(***************************************************************************)
(* The destination image pipeline of WanderWallet: fetch_unsplash_images   *)
(* and get_fallback_images (app.py) with select_best_destination_images    *)
(* (utils/ai_engine.py), over the image_cache table.                       *)
(***************************************************************************)
EXTENDS Integers, Sequences, FiniteSets, TLC

(***************************************************************************)
(* Text.  Python strings are TLA+ strings; str.lower and the substring     *)
(* test `k in s` are computed character by character.  The characters are  *)
(* those up to U+00FF, the ones a string of the model checker can hold.    *)
(***************************************************************************)
\* The characters up to U+00FF that str.lower changes: A-Z, U+00C0-U+00D6
\* and U+00D8-U+00DE.
UpperLetters == "ABCDEFGHIJKLMNOPQRSTUVWXYZÀÁÂÃÄÅÆÇÈÉÊËÌÍÎÏÐÑÒÓÔÕÖØÙÚÛÜÝÞ"

\* What str.lower makes of them, place by place.
LowerLetters == "abcdefghijklmnopqrstuvwxyzàáâãäåæçèéêëìíîïðñòóôõöøùúûüýþ"

\* The characters up to U+00FF at which str.split() splits: the blank, tab,
\* newline, carriage return, form feed, and (written as the characters
\* themselves) U+000B, U+001C, U+001D, U+001E, U+001F, U+0085, U+00A0.
Whitespace ==
    { " ", "\t", "\n", "\r", "\f", "", "", "", "", "", "", " " }

\* str.lower() on one character.
LowerChar(c) ==
    IF \E i \in 1..Len(UpperLetters) : SubSeq(UpperLetters, i, i) = c
    THEN LET i == CHOOSE j \in 1..Len(UpperLetters) : SubSeq(UpperLetters, j, j) = c
         IN  SubSeq(LowerLetters, i, i)
    ELSE c

RECURSIVE Lower(_)
\* str.lower()
Lower(s) ==
    IF Len(s) = 0 THEN s
    ELSE LowerChar(SubSeq(s, 1, 1)) \o Lower(SubSeq(s, 2, Len(s)))

\* The Python test `k in s` on strings.
Contains(s, k) ==
    \E i \in 1..(Len(s) - Len(k) + 1) : SubSeq(s, i, i + Len(k) - 1) = k

\* set(s) for a sequence s.
Range(s) == { s[i] : i \in DOMAIN s }

\* s[:n]
Take(s, n) == SubSeq(s, 1, IF n < Len(s) THEN n ELSE Len(s))

(***************************************************************************)
(* URLs.  Every URL of the pipeline is https://images.unsplash.com<path>   *)
(* ?<k=v&...>; it is kept as its path and its ordered query parameters,    *)
(* so two URLs are the same string exactly when the records are equal.     *)
(***************************************************************************)
\* A URL of the static pools: <path>?auto=format&q=80&w=1200
PoolUrl(path) ==
    [ path |-> path,
      params |-> << <<"auto", "format">>, <<"q", "80">>, <<"w", "1200">> >> ]

\* The attribution get_fallback_images gives every image.
FallbackImage(url) ==
    [ url |-> url, photographer |-> "Unsplash",
      photographer_url |-> "https://unsplash.com" ]

(***************************************************************************)
(* get_fallback_images                                                     *)
(***************************************************************************)
\* The keyword lists, in declaration order (a dict keeps insertion order).
destination_types ==
    <<
      [ name |-> "nature",
        keywords |-> <<
          "mountain", "hill", "peak", "summit", "valley", "meadow", "forest", "woods",
          "jungle", "trail", "hike", "trekking", "nature", "wildlife", "national park",
          "reserve" >> ],
      [ name |-> "water",
        keywords |-> <<
          "beach", "ocean", "sea", "bay", "gulf", "lake", "pond", "river", "stream",
          "waterfall", "falls", "coast", "shore", "island", "archipelago", "marina",
          "harbor" >> ],
      [ name |-> "urban",
        keywords |-> <<
          "city", "town", "skyline", "downtown", "metropolitan", "building",
          "architecture", "skyscraper", "tower", "plaza", "square", "street", "avenue",
          "boulevard", "urban" >> ],
      [ name |-> "heritage",
        keywords |-> <<
          "temple", "church", "mosque", "monastery", "shrine", "cathedral", "palace",
          "castle", "fort", "fortress", "monument", "memorial", "ruins", "heritage",
          "historical", "ancient", "archaeological", "unesco" >> ],
      [ name |-> "desert",
        keywords |-> <<
          "desert", "dune", "sand", "arid", "oasis", "sahara", "canyon", "badlands" >> ],
      [ name |-> "scenic",
        keywords |-> <<
          "landscape", "scenic", "panorama", "view", "vista", "lookout", "viewpoint",
          "picturesque", "countryside", "rural" >> ]
    >>

all_fallback_urls ==
    [
      nature |-> <<
          PoolUrl("/photo-1506905925346-21bda4d32df4"),
          PoolUrl("/photo-1511593358241-7eea1f3c84e5"),
          PoolUrl("/photo-1464822759023-fed622ff2c3b"),
          PoolUrl("/photo-1501785888041-af3ef285b470") >>,
      water |-> <<
          PoolUrl("/photo-1507525428034-b723cf961d3e"),
          PoolUrl("/photo-1505142468610-359e7d316be0"),
          PoolUrl("/photo-1559827260-dc66d52bef19"),
          PoolUrl("/photo-1544551763-46a013bb70d5") >>,
      urban |-> <<
          PoolUrl("/photo-1480714378408-67cf0d13bc1b"),
          PoolUrl("/photo-1514565131-fce0801e5785"),
          PoolUrl("/photo-1477959858617-67f85cf4f1df"),
          PoolUrl("/photo-1449824913935-59a10b8d2000") >>,
      heritage |-> <<
          PoolUrl("/photo-1548013146-72479768bada"),
          PoolUrl("/photo-1524492412937-b28074a5d7da"),
          PoolUrl("/photo-1564507592333-c60657eea523"),
          PoolUrl("/photo-1512428559087-560fa5ceab42") >>,
      desert |-> <<
          PoolUrl("/photo-1509316785289-025f5b846b35"),
          PoolUrl("/photo-1473580044384-7ba9967e16a0"),
          PoolUrl("/photo-1547036967-23d11aacaee0"),
          PoolUrl("/photo-1682687220742-aba13b6e50ba") >>,
      scenic |-> <<
          PoolUrl("/photo-1469854523086-cc02fe5d8800"),
          PoolUrl("/photo-1476514525535-07fb3b4ae5f1"),
          PoolUrl("/photo-1530789253388-582c481c54b0"),
          PoolUrl("/photo-1506905925346-21bda4d32df4") >>
    ]

PoolNames == [ i \in DOMAIN destination_types |-> destination_types[i].name ]

\* scores[dest_type]: the number of the pool's keywords found in the query.
Score(query_lower, i) ==
    Cardinality({ k \in DOMAIN destination_types[i].keywords :
                    Contains(query_lower, destination_types[i].keywords[k]) })

RECURSIVE StableSortDescLastWins(_, _)
\* Mutant of StableSortDesc: among equal scores the pool declared last comes
\* first (a sort that is not stable).
StableSortDescLastWins(scores, left) ==
    IF left = {} THEN << >>
    ELSE LET best == CHOOSE i \in left :
                       \A j \in left : \/ scores[i] > scores[j]
                                       \/ scores[i] = scores[j] /\ i >= j
         IN  << best >> \o StableSortDescLastWins(scores, left \ {best})

RECURSIVE StableSortDesc(_, _)
\* sorted(scores.items(), key=score, reverse=True): highest score first, equal
\* scores in their original order.  left: the indices not placed yet.
StableSortDesc(scores, left) ==
    IF left = {} THEN << >>
    ELSE LET best == CHOOSE i \in left :
                       \A j \in left : \/ scores[i] > scores[j]
                                       \/ scores[i] = scores[j] /\ i <= j
         IN  << best >> \o StableSortDesc(scores, left \ {best})

\* sorted_types, as pool names.
SortedTypes(query) ==
    LET query_lower == Lower(query)
        scores == [ i \in DOMAIN destination_types |-> Score(query_lower, i) ]
        order  == StableSortDesc(scores, DOMAIN destination_types)
    IN  [ k \in DOMAIN order |-> [ name |-> PoolNames[order[k]], score |-> scores[order[k]] ] ]

\* matched_type
MatchedType(query) ==
    LET sorted_types == SortedTypes(query)
    IN  IF sorted_types[1].score > 0 THEN sorted_types[1].name ELSE "scenic"

RECURSIVE AddPoolUrlsPrepend(_, _, _)
\* Mutant of AddPoolUrls: result_images.insert(0, ...) instead of append, so
\* the image found last comes first.
AddPoolUrlsPrepend(urls, st, count) ==
    IF st.returned \/ Len(urls) = 0 THEN st
    ELSE LET url == Head(urls)
             st1 == IF url \in st.used_urls THEN st
                    ELSE [ result_images |-> << FallbackImage(url) >> \o st.result_images,
                           used_urls     |-> st.used_urls \cup {url},
                           returned      |-> Len(st.result_images) + 1 >= count ]
         IN  AddPoolUrlsPrepend(Tail(urls), st1, count)

RECURSIVE AddPoolUrlsNoDedup(_, _, _)
\* Mutant of AddPoolUrls: the test `url not in used_urls` is left out.
AddPoolUrlsNoDedup(urls, st, count) ==
    IF st.returned \/ Len(urls) = 0 THEN st
    ELSE LET url == Head(urls)
             st1 == [ result_images |-> Append(st.result_images, FallbackImage(url)),
                      used_urls     |-> st.used_urls \cup {url},
                      returned      |-> Len(st.result_images) + 1 >= count ]
         IN  AddPoolUrlsNoDedup(Tail(urls), st1, count)

RECURSIVE AddPoolUrls(_, _, _)
\* One `for url in ...` loop: append every URL not used yet and return as soon
\* as count images are collected.  st: result_images, used_urls and whether
\* the function has returned.
AddPoolUrls(urls, st, count) ==
    IF st.returned \/ Len(urls) = 0 THEN st
    ELSE LET url == Head(urls)
             st1 == IF url \in st.used_urls THEN st
                    ELSE [ result_images |-> Append(st.result_images, FallbackImage(url)),
                           used_urls     |-> st.used_urls \cup {url},
                           returned      |-> Len(st.result_images) + 1 >= count ]
         IN  AddPoolUrls(Tail(urls), st1, count)

RECURSIVE AddOtherPools(_, _, _, _)
\* `for dest_type, _ in sorted_types: if dest_type != matched_type: ...`
AddOtherPools(sorted_types, matched_type, st, count) ==
    IF st.returned \/ Len(sorted_types) = 0 THEN st
    ELSE LET dest_type == Head(sorted_types).name
             st1 == IF dest_type # matched_type
                    THEN AddPoolUrls(all_fallback_urls[dest_type], st, count)
                    ELSE st
         IN  AddOtherPools(Tail(sorted_types), matched_type, st1, count)

\* The image returned when nothing was collected.
DefaultFallbackImage == FallbackImage(PoolUrl("/photo-1469854523086-cc02fe5d8800"))

\* The locals result_images and used_urls where no activation of
\* get_fallback_images has run.
NoLocals == [ result_images |-> << >>, used_urls |-> {}, returned |-> FALSE ]

\* Mutant of EnterFallback: used_urls is created once, at module level, so an
\* activation starts with the URLs the one before it has used.
EnterFallbackKeepsUsedUrls(left) ==
    [ result_images |-> << >>, used_urls |-> left.used_urls, returned |-> FALSE ]

\* `result_images = []` and `used_urls = set()`: an activation creates its
\* locals anew, whatever the activation before it has left.
EnterFallback(left) ==
    [ result_images |-> << >>, used_urls |-> {}, returned |-> FALSE ]

\* The loops and the returns of get_fallback_images, from the locals st0 of
\* the activation: the locals it ends with and the list it returns.
RunFallback(st0, sorted_types, matched_type, count) ==
    LET st1 == AddPoolUrls(all_fallback_urls[matched_type], st0, count)
        st2 == AddOtherPools(sorted_types, matched_type, st1, count)
    IN  [ locals |-> st2,
          images |-> IF st2.returned THEN st2.result_images
                     ELSE IF st2.result_images # << >> THEN Take(st2.result_images, count)
                     ELSE << DefaultFallbackImage >> ]

get_fallback_images(query, count) ==
    RunFallback(EnterFallback(NoLocals), SortedTypes(query), MatchedType(query), count).images

\* The distinct URLs of the six pools (D).
AllPoolUrls == UNION { Range(all_fallback_urls[PoolNames[i]]) : i \in DOMAIN PoolNames }

(***************************************************************************)
(* The search service's photos.  A photo is the JSON object of one result: *)
(* id, urls.regular, user.name, user.links.html, tags, alt_description     *)
(* and description (None is the empty string: the code reads `x or ''`).   *)
(* A tag is a JSON value; dict says whether it is an object.               *)
(***************************************************************************)
Tag(title) == [ dict |-> TRUE, title |-> title ]

\* A tag that is no JSON object (a bare number, say): tag.get raises.
BadTag == [ dict |-> FALSE, title |-> "" ]

Url(path, params) == [ path |-> path, params |-> params ]

PhotoFort ==
    [ id |-> "amber", regular |-> Url("/photo-amber", << >>),
      name |-> "Asha", html |-> "https://unsplash.com/@asha",
      tags |-> << Tag("Fort"), Tag("jaipur") >>,
      alt_description |-> "amber fort at sunrise", description |-> "" ]

\* Another photo whose URL differs from PhotoFort's only by a default parameter.
PhotoFortCopy ==
    [ id |-> "amber-2", regular |-> Url("/photo-amber", << <<"auto", "format">> >>),
      name |-> "Ravi", html |-> "https://unsplash.com/@ravi",
      tags |-> << Tag("fort") >>,
      alt_description |-> "", description |-> "Amber fort" ]

\* The photo behind the first URL of the scenic pool, as the search returns it.
PhotoScenic ==
    [ id |-> "road", regular |-> Url("/photo-1469854523086-cc02fe5d8800", << >>),
      name |-> "Dino", html |-> "https://unsplash.com/@dino",
      tags |-> << Tag("road"), Tag("travel") >>,
      alt_description |-> "", description |-> "" ]

PhotoSelfie ==
    [ id |-> "me", regular |-> Url("/photo-me", << <<"w", "400">>, <<"fit", "max">> >>),
      name |-> "Kim", html |-> "https://unsplash.com/@kim",
      tags |-> << Tag("tourist") >>,
      alt_description |-> "Selfie in front of the palace", description |-> "" ]

\* A photo whose tags list holds a value that is no object.
PhotoBadTags ==
    [ id |-> "odd", regular |-> Url("/photo-odd", << >>),
      name |-> "Lee", html |-> "https://unsplash.com/@lee",
      tags |-> << BadTag >>,
      alt_description |-> "", description |-> "" ]

Photos == { PhotoFort, PhotoFortCopy, PhotoScenic, PhotoSelfie, PhotoBadTags }

(***************************************************************************)
(* fetch_unsplash_images: the pure parts                                   *)
(***************************************************************************)
people_keywords == { "selfie", "portrait" }

RECURSIVE JoinWords(_)
\* ' '.join(words)
JoinWords(words) ==
    IF Len(words) = 0 THEN ""
    ELSE IF Len(words) = 1 THEN words[1]
    ELSE words[1] \o " " \o JoinWords(Tail(words))

\* Whether reading the titles of these tags raises (tag.get on a non-object).
TagsRaise(tags) == \E i \in DOMAIN tags : ~tags[i].dict

\* text_to_check of one photo (its tags are all objects).
TextToCheck(photo) ==
    JoinWords([ i \in DOMAIN photo.tags |-> Lower(photo.tags[i].title) ])
        \o " " \o Lower(photo.alt_description) \o " " \o Lower(photo.description)

has_people_focus(photo) ==
    \E keyword \in people_keywords : Contains(TextToCheck(photo), keyword)

\* has_people_focus of every photo of the model, computed once.
PeopleFocus == [ photo \in { ph \in Photos : ~TagsRaise(ph.tags) } |-> has_people_focus(photo) ]

RECURSIVE AddResults(_, _)
\* `for photo in data.get('results', [])`: every photo goes to raw_photo_data,
\* the ones without people focus to filtered_photo_data too; an exception
\* leaves the loop with what was appended so far.
AddResults(results, st) ==
    IF st.raised \/ Len(results) = 0 THEN st
    ELSE LET photo == Head(results)
             raw1  == Append(st.raw_photo_data, photo)
             st1   == IF TagsRaise(photo.tags)
                      THEN [ st EXCEPT !.raw_photo_data = raw1, !.raised = TRUE ]
                      ELSE IF PeopleFocus[photo]
                      THEN [ st EXCEPT !.raw_photo_data = raw1 ]
                      ELSE [ st EXCEPT !.raw_photo_data = raw1,
                                       !.filtered_photo_data = Append(@, photo) ]
         IN  AddResults(Tail(results), st1)

RECURSIVE ParamDict(_, _)
\* {key: value for key, value in existing_params}: a key keeps the place of
\* its first occurrence and takes the value of its last.
ParamDict(pairs, dict) ==
    IF Len(pairs) = 0 THEN dict
    ELSE LET kv == Head(pairs)
             dict1 == IF \E i \in DOMAIN dict : dict[i][1] = kv[1]
                      THEN [ i \in DOMAIN dict |->
                               IF dict[i][1] = kv[1] THEN kv ELSE dict[i] ]
                      ELSE Append(dict, kv)
         IN  ParamDict(Tail(pairs), dict1)

\* Mutant of SetDefault: `param_dict[key] = value` without the test, so a
\* value the URL carries is replaced by the default.
SetDefaultOverwrite(dict, key, value) ==
    IF \E i \in DOMAIN dict : dict[i][1] = key
    THEN [ i \in DOMAIN dict |-> IF dict[i][1] = key THEN << key, value >> ELSE dict[i] ]
    ELSE Append(dict, << key, value >>)

\* `if key not in param_dict: param_dict[key] = value`
SetDefault(dict, key, value) ==
    IF \E i \in DOMAIN dict : dict[i][1] = key THEN dict
    ELSE Append(dict, << key, value >>)

\* optimized_url: urlparse, parse_qsl, the three defaults, urlencode, urlunparse.
optimized_url(base_url) ==
    LET param_dict == ParamDict(base_url.params, << >>)
        d1 == SetDefault(param_dict, "auto", "format")
        d2 == SetDefault(d1, "q", "80")
        d3 == SetDefault(d2, "w", "1200")
    IN  [ path |-> base_url.path, params |-> d3 ]

\* image_data of one photo.
image_data(photo) ==
    [ url |-> optimized_url(photo.regular),
      photographer |-> photo.name, photographer_url |-> photo.html ]

RECURSIVE SplitWords(_, _, _)
\* s.split(): the words of s between runs of whitespace.  word: the letters of
\* the word being read; words: the words read so far.
SplitWords(s, word, words) ==
    IF Len(s) = 0
    THEN IF word = "" THEN words ELSE Append(words, word)
    ELSE LET c == SubSeq(s, 1, 1)
             rest == SubSeq(s, 2, Len(s))
         IN  IF c \in Whitespace
             THEN SplitWords(rest, "", IF word = "" THEN words ELSE Append(words, word))
             ELSE SplitWords(rest, word \o c, words)

Split(s) == SplitWords(s, "", << >>)

\* sanitized_query: the lower-cased words that are no people keyword and do
\* not start with "-", joined by one blank.
sanitized_query(query) ==
    JoinWords(SelectSeq(Split(Lower(query)),
                        LAMBDA word : word \notin people_keywords /\ SubSeq(word, 1, 1) # "-"))

\* destination_name
destination_name(query) ==
    LET sanitized == sanitized_query(query)
    IN  IF sanitized # "" THEN Split(sanitized)[1] ELSE query

\* query_variations
query_variations(query) ==
    LET sanitized == sanitized_query(query)
        destination == destination_name(query)
        words == Split(sanitized)
        has_india == "india" \in Range(words) \/ "indian" \in Range(words)
    IN  << sanitized,
           IF Len(words) > 1 THEN destination \o " landmark" ELSE sanitized,
           IF Len(words) > 1 THEN destination \o " cityscape" ELSE sanitized \o " city",
           IF has_india THEN "india rajasthan heritage" ELSE destination \o " architecture",
           IF has_india THEN "india tourist attraction beautiful"
           ELSE sanitized \o " travel destination" >>

(***************************************************************************)
(* A ranking is the JSON list ranked_indices, as json.loads yields it: each *)
(* entry an int, a bool (True is 1, False is 0), a float, or a value that  *)
(* Python does not compare with an int (a string, None, a list, a dict).   *)
(***************************************************************************)
JsonInt(k) == [ kind |-> "int", value |-> k ]

JsonBool(b) == [ kind |-> "bool", value |-> IF b THEN 1 ELSE 0 ]

\* The float k + 0.5: it is below an integer n exactly when k < n.
JsonFloat(k) == [ kind |-> "float", value |-> k ]

JsonOther == [ kind |-> "other", value |-> 0 ]

\* `idx < len(raw_photo_data)` has a value (it raises TypeError otherwise).
ComparesWithInt(idx) == idx.kind \in { "int", "bool", "float" }

\* raw_photo_data[idx] takes idx as an index (it raises TypeError otherwise).
IsIndex(idx) == idx.kind \in { "int", "bool" }

\* list(range(n))
IdentityRanking(n) == [ i \in 1..n |-> JsonInt(i - 1) ]

\* raw_photo_data[idx] for an integer idx that Python accepts (a negative
\* index counts from the end).
PyIndex(seq, idx) == IF idx >= 0 THEN seq[idx + 1] ELSE seq[Len(seq) + idx + 1]

RECURSIVE WalkRankingIdOnly(_, _, _, _)
\* Mutant of WalkRanking: a candidate is skipped only when its id was taken
\* before; the test of the normalized URL is left out.
WalkRankingIdOnly(ranked_indices, raw_photo_data, count, st) ==
    IF st.raised \/ Len(ranked_indices) = 0 THEN st
    ELSE IF Len(st.accumulated_images) >= count THEN st
    ELSE LET idx  == Head(ranked_indices)
             rest == Tail(ranked_indices)
         IN  IF ~ComparesWithInt(idx)
             THEN [ st EXCEPT !.raised = TRUE ]
             ELSE IF ~(idx.value < Len(raw_photo_data))
             THEN WalkRankingIdOnly(rest, raw_photo_data, count, st)
             ELSE IF ~IsIndex(idx) \/ idx.value < -Len(raw_photo_data)
             THEN [ st EXCEPT !.raised = TRUE ]
             ELSE LET photo == PyIndex(raw_photo_data, idx.value)
                      img   == image_data(photo)
                  IN  IF photo.id \in st.used_photo_ids
                      THEN WalkRankingIdOnly(rest, raw_photo_data, count, st)
                      ELSE WalkRankingIdOnly(rest, raw_photo_data, count,
                             [ st EXCEPT !.accumulated_images = Append(@, img),
                                         !.used_photo_ids = @ \cup {photo.id},
                                         !.used_urls = @ \cup {img.url} ])

RECURSIVE WalkRanking(_, _, _, _)
\* `for idx in ranked_indices`: st holds accumulated_images, used_photo_ids,
\* used_urls and whether an exception left the function.
WalkRanking(ranked_indices, raw_photo_data, count, st) ==
    IF st.raised \/ Len(ranked_indices) = 0 THEN st
    ELSE IF Len(st.accumulated_images) >= count THEN st
    ELSE LET idx  == Head(ranked_indices)
             rest == Tail(ranked_indices)
         IN  IF ~ComparesWithInt(idx)
             THEN [ st EXCEPT !.raised = TRUE ]              \* TypeError: idx < len(...)
             ELSE IF ~(idx.value < Len(raw_photo_data))
             THEN WalkRanking(rest, raw_photo_data, count, st)
             ELSE IF ~IsIndex(idx)
             THEN [ st EXCEPT !.raised = TRUE ]              \* TypeError: raw_photo_data[idx]
             ELSE IF idx.value < -Len(raw_photo_data)
             THEN [ st EXCEPT !.raised = TRUE ]              \* IndexError
             ELSE LET photo == PyIndex(raw_photo_data, idx.value)
                      img   == image_data(photo)
                  IN  IF photo.id \in st.used_photo_ids
                      THEN WalkRanking(rest, raw_photo_data, count, st)
                      ELSE IF img.url \in st.used_urls
                      THEN WalkRanking(rest, raw_photo_data, count, st)
                      ELSE WalkRanking(rest, raw_photo_data, count,
                             [ st EXCEPT !.accumulated_images = Append(@, img),
                                         !.used_photo_ids = @ \cup {photo.id},
                                         !.used_urls = @ \cup {img.url} ])

\* Mutant of PadWithFallbacks: the padding does not look at the URLs already
\* accumulated.
PadWithoutUrlCheck(fallbacks, accumulated_images, count) ==
    Take(accumulated_images \o fallbacks, count)

RECURSIVE PadWithFallbacks(_, _, _)
\* `for fallback in fallbacks`: append the ones whose URL is not accumulated
\* yet, until count images are there.
PadWithFallbacks(fallbacks, accumulated_images, count) ==
    IF Len(fallbacks) = 0 THEN accumulated_images
    ELSE LET fallback == Head(fallbacks)
             urls == { accumulated_images[i].url : i \in DOMAIN accumulated_images }
         IN  IF fallback.url \notin urls
             THEN LET acc1 == Append(accumulated_images, fallback)
                  IN  IF Len(acc1) >= count THEN acc1
                      ELSE PadWithFallbacks(Tail(fallbacks), acc1, count)
             ELSE PadWithFallbacks(Tail(fallbacks), accumulated_images, count)

(***************************************************************************)
(* The image_cache table: rows (query, image_index, image_url,             *)
(* photographer, photographer_url), UNIQUE(query, image_index).            *)
(***************************************************************************)
RowsOf(table, query) == { r \in table : r.query = query }

RECURSIVE OrderByIndex(_)
\* ORDER BY image_index
OrderByIndex(rows) ==
    IF rows = {} THEN << >>
    ELSE LET first == CHOOSE r \in rows : \A s \in rows : r.image_index <= s.image_index
         IN  << first >> \o OrderByIndex(rows \ {first})

\* Mutant of SelectCached: the rows of highest rank instead of the rows of
\* lowest rank (ORDER BY image_index DESC, read back in ascending order).
SelectCachedHighest(table, query, count) ==
    LET all == OrderByIndex(RowsOf(table, query))
    IN  SubSeq(all, IF count < Len(all) THEN Len(all) - count + 1 ELSE 1, Len(all))

\* SELECT * FROM image_cache WHERE query = ? ORDER BY image_index LIMIT ?
SelectCached(table, query, count) == Take(OrderByIndex(RowsOf(table, query)), count)

\* The dict built from one cached row.
ImageOfRow(img) ==
    [ url |-> img.image_url, photographer |-> img.photographer,
      photographer_url |-> img.photographer_url ]

\* Mutant of RowOfImage: the ranks are counted from 1 (enumerate(..., 1)).
RowOfImageOneBased(query, idx, img) ==
    [ query |-> query, image_index |-> idx + 1, image_url |-> img.url,
      photographer |-> img.photographer, photographer_url |-> img.photographer_url ]

\* The row INSERTed for accumulated_images[idx].
RowOfImage(query, idx, img) ==
    [ query |-> query, image_index |-> idx, image_url |-> img.url,
      photographer |-> img.photographer, photographer_url |-> img.photographer_url ]

(***************************************************************************)
(* Bounds of the model                                                     *)
(***************************************************************************)
\* The largest count of a call.
MaxCount == 2

\* The most photos one search response holds (the code asks for 20 a page).
MaxPage == 2

\* The most photos one call collects over all its search attempts.
MaxRaw == 2

\* The longest ranked_indices list the model answers with.
MaxRank == 2

\* Worker threads of the web server that may run a call.
Procs == { 1, 2 }

\* The queries of the calls.
Queries ==
    { "Jaipur India", "desert canyon trip", "Fort Hill", "Desert canyon hill",
      "selfie -x", "Goa Selfie -crowd" }

\* The largest count get_fallback_images is called with.
MaxFallbackCount == 25

\* get_fallback_images(query, count) for the calls of the model, computed once.
Fallbacks ==
    [ query \in Queries, count \in 1..MaxFallbackCount |-> get_fallback_images(query, count) ]

\* len(query_variations)
max_attempts == 5

\* query_variations of the queries of the model, computed once.
QueryVariations == [ query \in Queries |-> query_variations(query) ]

\* models_to_try
models_to_try == << "gemini-2.5-flash", "gemini-2.0-flash-exp" >>

SeqsUpTo(S, n) == UNION { [ 1..k -> S ] : k \in 0..n }

(***************************************************************************)
(* What the external services may answer                                   *)
(***************************************************************************)
\* requests.get: status 0 stands for a transport error (timeout, no
\* connection); valid tells whether response.json() yields an object.
SearchResponses(room) ==
    { [ status |-> 0,   valid |-> FALSE, results |-> << >> ],
      [ status |-> 500, valid |-> FALSE, results |-> << >> ],
      [ status |-> 200, valid |-> FALSE, results |-> << >> ] }
    \cup { [ status |-> 200, valid |-> TRUE, results |-> r ] :
             r \in SeqsUpTo(Photos, IF room < MaxPage THEN room ELSE MaxPage) }

\* The entries a ranking over n candidates may hold.
RankEntries(n) ==
    { JsonInt(k) : k \in (-1..n) \cup { -(n + 1) } }
    \cup { JsonBool(TRUE), JsonFloat(n), JsonFloat(0), JsonOther }

\* generate_content of one model: it raises, answers no text, answers text
\* that json.loads or result.get rejects, or answers {"ranked_indices": ranked}.
RankResponses(n) ==
    { [ kind |-> "exception", ranked |-> << >> ],
      [ kind |-> "no_text",   ranked |-> << >> ],
      [ kind |-> "bad_json",  ranked |-> << >> ] }
    \cup { [ kind |-> "json", ranked |-> r ] : r \in SeqsUpTo(RankEntries(n), MaxRank) }

(***************************************************************************)
(* retry_with_backoff                                                      *)
(***************************************************************************)
\* The largest max_retries of a call.
MaxRetries == 3

\* The values of initial_delay (the default 2 and the 1 and 3 of the callers).
InitialDelays == { 1, 2, 3 }

\* str(e) of the exceptions func may raise.
ErrorMessages ==
    { "503 Service Unavailable", "The model is UNAVAILABLE", "429 Too Many Requests",
      "RESOURCE_EXHAUSTED", "400 Bad Request", "service unavailable" }

\* What one call of func does: it returns a value or raises.
FuncOutcomes ==
    { [ ok |-> TRUE, value |-> v, msg |-> "" ] : v \in { "insights", "budget" } }
    \cup { [ ok |-> FALSE, value |-> "", msg |-> m ] : m \in ErrorMessages }

\* Mutant of AfterFunc: the tests `attempt < max_retries - 1` are left out,
\* so the helper sleeps after a transient error of the last call too.
AfterFuncSleepsOnLast(r, outcome) ==
    LET r1 == [ r EXCEPT !.calls = @ + 1 ]
        error_msg == outcome.msg
    IN  IF outcome.ok
        THEN [ r1 EXCEPT !.pc = "returned", !.result = outcome.value ]
        ELSE IF Contains(error_msg, "503") \/ Contains(error_msg, "UNAVAILABLE")
        THEN [ r1 EXCEPT !.error = error_msg, !.attempt = @ + 1,
                         !.slept = Append(@, r.initial_delay * (2 ^ r.attempt)) ]
        ELSE IF Contains(error_msg, "429") \/ Contains(error_msg, "RESOURCE_EXHAUSTED")
        THEN [ r1 EXCEPT !.error = error_msg, !.attempt = @ + 1,
                         !.slept = Append(@, r.initial_delay * (3 ^ r.attempt)) ]
        ELSE [ r1 EXCEPT !.error = error_msg, !.pc = "raised" ]

\* One pass of `for attempt in range(max_retries)`: the call of func and the
\* except branch.
AfterFunc(r, outcome) ==
    LET r1 == [ r EXCEPT !.calls = @ + 1 ]
        error_msg == outcome.msg
    IN  IF outcome.ok
        THEN [ r1 EXCEPT !.pc = "returned", !.result = outcome.value ]
        ELSE IF /\ Contains(error_msg, "503") \/ Contains(error_msg, "UNAVAILABLE")
                /\ r.attempt < r.max_retries - 1
        THEN [ r1 EXCEPT !.error = error_msg, !.attempt = @ + 1,
                         !.slept = Append(@, r.initial_delay * (2 ^ r.attempt)) ]
        ELSE IF /\ Contains(error_msg, "429") \/ Contains(error_msg, "RESOURCE_EXHAUSTED")
                /\ r.attempt < r.max_retries - 1
        THEN [ r1 EXCEPT !.error = error_msg, !.attempt = @ + 1,
                         !.slept = Append(@, r.initial_delay * (3 ^ r.attempt)) ]
        ELSE [ r1 EXCEPT !.error = error_msg, !.pc = "raised" ]

\* The end of the for loop: `raise Exception("All ... retry attempts failed")`
AfterLoop(r) ==
    [ r EXCEPT !.pc = "raised",
               !.error = "All " \o ToString(r.max_retries) \o " retry attempts failed" ]

(***************************************************************************)
(* State                                                                   *)
(***************************************************************************)
VARIABLES
    image_cache,          \* the committed rows of the image_cache table
    UNSPLASH_ACCESS_KEY,  \* whether the search credential is configured
    AI_AVAILABLE,         \* whether the generative client was initialised
    write_lock,           \* the call holding the database's write lock, or 0
    frame,                \* frame[p]: the locals of call p of fetch_unsplash_images
    fallback_seen,        \* history: the first activation of get_fallback_images, or << >>
    retry,                \* the locals of the running call of retry_with_backoff
    selector              \* the latest activation of get_fallback_images run by itself

vars == << image_cache, UNSPLASH_ACCESS_KEY, AI_AVAILABLE, write_lock, frame, fallback_seen, retry,
          selector >>

IdleFrame ==
    [ pc |-> "idle", query |-> "", count |-> 0,
      cached |-> << >>,
      attempt |-> 0, n_search |-> 0, http_failed |-> 0,
      requests |-> << >>, outcome |-> "",
      raw_photo_data |-> << >>, filtered_photo_data |-> << >>,
      model_idx |-> 0, n_rank |-> 0, ranked_indices |-> << >>,
      accumulated_images |-> << >>,
      old_rows |-> {}, tx |-> {}, insert_idx |-> 0, cache_write |-> "none",
      fallback_needed |-> 0, fallbacks |-> << >>,
      result |-> << >> ]

\* No call of retry_with_backoff runs.  calls counts the calls of func,
\* slept lists the delays of time.sleep, error is the message of the last
\* exception of func, result the value the helper returned.
IdleRetry ==
    [ pc |-> "idle", max_retries |-> 0, initial_delay |-> 0, attempt |-> 0,
      calls |-> 0, slept |-> << >>, error |-> "", result |-> "" ]

\* get_fallback_images has not run by itself: no arguments, no list returned,
\* and the locals of no activation.
IdleSelector == [ query |-> "", count |-> 0, locals |-> NoLocals, images |-> << >> ]

Init ==
    /\ image_cache = {}
    /\ UNSPLASH_ACCESS_KEY \in BOOLEAN
    /\ AI_AVAILABLE \in BOOLEAN
    /\ write_lock = 0
    /\ frame = [ p \in Procs |-> IdleFrame ]
    /\ fallback_seen = << >>
    /\ retry = IdleRetry
    /\ selector = IdleSelector

(***************************************************************************)
(* fetch_unsplash_images, step by step                                     *)
(***************************************************************************)
\* A request handler calls fetch_unsplash_images(q, c).
Call(p, q, c) ==
    /\ frame[p].pc = "idle"
    /\ frame' = [ frame EXCEPT ![p] =
                    [ IdleFrame EXCEPT !.pc = "lookup", !.query = q, !.count = c ] ]
    /\ UNCHANGED << image_cache, UNSPLASH_ACCESS_KEY, AI_AVAILABLE, write_lock, fallback_seen, retry, selector >>

\* A call of get_fallback_images from fetch_unsplash_images.
CallFallback(query, count) == Fallbacks[query, count]

\* `return get_fallback_images(query, count)`
ReturnFallback(f) ==
    LET images == CallFallback(f.query, f.count)
    IN  [ f EXCEPT !.pc = "done", !.fallback_needed = f.count,
                   !.fallbacks = images, !.result = images ]

\* Mutant of AfterLookup: the credential is checked before the cache.
AfterLookupKeyFirst(f, cached, key) ==
    IF ~key
    THEN ReturnFallback([ f EXCEPT !.cached = cached ])
    ELSE IF Len(cached) >= f.count
    THEN [ f EXCEPT !.pc = "done", !.cached = cached,
                    !.result = [ i \in 1..f.count |-> ImageOfRow(cached[i]) ] ]
    ELSE [ f EXCEPT !.pc = "search", !.cached = cached ]

\* Mutant of AfterLookup: a cache miss goes on to the search whether or not
\* the credential is configured.
AfterLookupNoKeyCheck(f, cached, key) ==
    IF Len(cached) >= f.count
    THEN [ f EXCEPT !.pc = "done", !.cached = cached,
                    !.result = [ i \in 1..f.count |-> ImageOfRow(cached[i]) ] ]
    ELSE [ f EXCEPT !.pc = "search", !.cached = cached ]

\* The cache check and the credential check.
AfterLookup(f, cached, key) ==
    IF Len(cached) >= f.count
    THEN [ f EXCEPT !.pc = "done", !.cached = cached,
                    !.result = [ i \in 1..f.count |-> ImageOfRow(cached[i]) ] ]
    ELSE IF ~key
    THEN ReturnFallback([ f EXCEPT !.cached = cached ])
    ELSE [ f EXCEPT !.pc = "search", !.cached = cached ]

CacheLookup(p) ==
    /\ frame[p].pc = "lookup"
    /\ frame' = [ frame EXCEPT ![p] =
                    AfterLookup(@, SelectCached(image_cache, @.query, @.count),
                                UNSPLASH_ACCESS_KEY) ]
    /\ UNCHANGED << image_cache, UNSPLASH_ACCESS_KEY, AI_AVAILABLE, write_lock, fallback_seen, retry, selector >>

\* How one pass of the search loop ends: in the else branch (a status other
\* than 200), in the except branch (requests.get, response.json or the
\* reading of a result raised), or at the end of the try block.
AttemptOutcome(resp, raised) ==
    IF resp.status = 0 THEN "exception"
    ELSE IF resp.status # 200 THEN "status"
    ELSE IF ~resp.valid \/ raised THEN "exception"
    ELSE "ok"

\* Mutant of AfterAttempt: a failed request ends the search phase (the try
\* around the loop instead of inside it).
AfterAttemptAbortOnError(f, resp) ==
    LET st0 == [ raw_photo_data |-> f.raw_photo_data,
                 filtered_photo_data |-> f.filtered_photo_data, raised |-> FALSE ]
        ok  == resp.status = 200 /\ resp.valid
        st  == IF ok THEN AddResults(resp.results, st0) ELSE st0
        stop == ~ok \/ st.raised \/ Len(st.filtered_photo_data) >= f.count * 2
    IN  [ f EXCEPT !.attempt = @ + 1, !.n_search = @ + 1,
                   !.http_failed = IF resp.status # 200 THEN @ + 1 ELSE @,
                   !.requests = Append(@, QueryVariations[f.query][f.attempt + 1]),
                   !.outcome = AttemptOutcome(resp, st.raised),
                   !.raw_photo_data = st.raw_photo_data,
                   !.filtered_photo_data = st.filtered_photo_data,
                   !.pc = IF stop \/ f.attempt + 1 >= max_attempts
                          THEN "searched" ELSE "search" ]

\* One pass of `for attempt in range(max_attempts)` with the answer resp.
AfterAttempt(f, resp) ==
    LET st0 == [ raw_photo_data |-> f.raw_photo_data,
                 filtered_photo_data |-> f.filtered_photo_data, raised |-> FALSE ]
        ok  == resp.status = 200 /\ resp.valid
        st  == IF ok THEN AddResults(resp.results, st0) ELSE st0
        stop == ok /\ ~st.raised /\ Len(st.filtered_photo_data) >= f.count * 2
    IN  [ f EXCEPT !.attempt = @ + 1, !.n_search = @ + 1,
                   !.http_failed = IF resp.status # 200 THEN @ + 1 ELSE @,
                   !.requests = Append(@, QueryVariations[f.query][f.attempt + 1]),
                   !.outcome = AttemptOutcome(resp, st.raised),
                   !.raw_photo_data = st.raw_photo_data,
                   !.filtered_photo_data = st.filtered_photo_data,
                   !.pc = IF stop \/ f.attempt + 1 >= max_attempts
                          THEN "searched" ELSE "search" ]

\* One search attempt of call p, answered by one of responses.
SearchWith(p, responses) ==
    /\ frame[p].pc = "search"
    /\ \E resp \in responses :
         frame' = [ frame EXCEPT ![p] = AfterAttempt(@, resp) ]
    /\ UNCHANGED << image_cache, UNSPLASH_ACCESS_KEY, AI_AVAILABLE, write_lock, fallback_seen, retry, selector >>

SearchAttempt(p) == SearchWith(p, SearchResponses(MaxRaw - Len(frame[p].raw_photo_data)))

\* Mutant of AfterRanking: the padding with fallback images comes before the
\* cache write instead of after it.
AfterRankingPadsFirst(f, ranked) ==
    LET w == WalkRanking(ranked, f.raw_photo_data, f.count,
               [ accumulated_images |-> << >>, used_photo_ids |-> {},
                 used_urls |-> {}, raised |-> FALSE ])
        padded == IF Len(w.accumulated_images) < f.count
                  THEN PadWithFallbacks(
                         CallFallback(f.query, f.count - Len(w.accumulated_images)),
                         w.accumulated_images, f.count)
                  ELSE w.accumulated_images
    IN  IF w.raised
        THEN [ f EXCEPT !.pc = "raised", !.ranked_indices = ranked ]
        ELSE [ f EXCEPT !.ranked_indices = ranked,
                        !.accumulated_images = padded,
                        !.pc = IF padded # << >> THEN "delete" ELSE "pad" ]

\* The walk over the ranking the ranker returned, up to the cache write.
AfterRanking(f, ranked) ==
    LET w == WalkRanking(ranked, f.raw_photo_data, f.count,
               [ accumulated_images |-> << >>, used_photo_ids |-> {},
                 used_urls |-> {}, raised |-> FALSE ])
    IN  IF w.raised
        THEN [ f EXCEPT !.pc = "raised", !.ranked_indices = ranked ]
        ELSE [ f EXCEPT !.ranked_indices = ranked,
                        !.accumulated_images = w.accumulated_images,
                        !.pc = IF w.accumulated_images # << >> THEN "delete" ELSE "pad" ]

\* The end of the search phase: the choice of the candidate list, the early
\* return, and the entry of select_best_destination_images.
AfterSearch(f, ai) ==
    LET candidates == IF f.filtered_photo_data # << >>
                      THEN f.filtered_photo_data ELSE f.raw_photo_data
        f1 == [ f EXCEPT !.raw_photo_data = candidates, !.outcome = "" ]
    IN  IF candidates = << >> THEN ReturnFallback(f1)
        ELSE IF ~ai THEN AfterRanking(f1, IdentityRanking(Len(candidates)))
        ELSE IF \E i \in DOMAIN candidates : TagsRaise(Take(candidates[i].tags, 5))
        THEN [ f1 EXCEPT !.pc = "raised" ]
        ELSE [ f1 EXCEPT !.pc = "ranking" ]

EndSearch(p) ==
    /\ frame[p].pc = "searched"
    /\ frame' = [ frame EXCEPT ![p] = AfterSearch(@, AI_AVAILABLE) ]
    /\ UNCHANGED << image_cache, UNSPLASH_ACCESS_KEY, AI_AVAILABLE, write_lock, fallback_seen, retry, selector >>

\* One pass of `for model_name in models_to_try` with the answer resp.
AfterModel(f, resp) ==
    LET f1 == [ f EXCEPT !.model_idx = @ + 1, !.n_rank = @ + 1 ]
    IN  IF resp.kind = "json" /\ resp.ranked # << >>
        THEN AfterRanking(f1, resp.ranked)
        ELSE IF f.model_idx + 1 >= Len(models_to_try)
        THEN AfterRanking(f1, IdentityRanking(Len(f.raw_photo_data)))
        ELSE f1

\* One request to a model for call p, answered by one of responses.
RankWith(p, responses) ==
    /\ frame[p].pc = "ranking"
    /\ \E resp \in responses :
         frame' = [ frame EXCEPT ![p] = AfterModel(@, resp) ]
    /\ UNCHANGED << image_cache, UNSPLASH_ACCESS_KEY, AI_AVAILABLE, write_lock, fallback_seen, retry, selector >>

RankAttempt(p) == RankWith(p, RankResponses(Len(frame[p].raw_photo_data)))

(***************************************************************************)
(* The cache write: BEGIN TRANSACTION, DELETE, one INSERT per image,       *)
(* commit; any exception leads to rollback.  tx is the table as the        *)
(* call's connection sees it inside its transaction; the other             *)
(* connections read image_cache, the committed rows.  A statement may      *)
(* fail (database is locked, disk I/O error); it does fail while another   *)
(* connection holds the write lock.                                        *)
(***************************************************************************)
\* `except Exception: db.rollback()`
Rollback(f) ==
    [ f EXCEPT !.tx = {}, !.cache_write = "rolled_back", !.pc = "pad" ]

\* Mutant of DeleteRows: DELETE FROM image_cache, without the WHERE clause.
DeleteRowsOfAllQueries(table, query) == {}

\* DELETE FROM image_cache WHERE query = ?
DeleteRows(table, query) == table \ RowsOf(table, query)

\* After the walk raw_photo_data, filtered_photo_data and ranked_indices are
\* not read again: the frame lets go of them.
AfterWalk(f) ==
    [ f EXCEPT !.raw_photo_data = << >>, !.filtered_photo_data = << >>,
               !.ranked_indices = << >> ]

\* BEGIN TRANSACTION and the DELETE, which takes the write lock.
AfterDelete(f, table, ok) ==
    LET f1 == [ AfterWalk(f) EXCEPT !.old_rows = RowsOf(table, f.query) ]
    IN  IF ok
        THEN [ f1 EXCEPT !.pc = "insert", !.insert_idx = 0,
                         !.tx = DeleteRows(table, f.query) ]
        ELSE Rollback(f1)

\* Mutant of TxDelete: the connection is in autocommit mode, the DELETE is
\* committed at once.
TxDeleteAutocommit(p) ==
    /\ frame[p].pc = "delete"
    /\ \E ok \in BOOLEAN :
         /\ ok => write_lock = 0
         /\ frame' = [ frame EXCEPT ![p] = AfterDelete(@, image_cache, ok) ]
         /\ write_lock' = IF ok THEN p ELSE write_lock
         /\ image_cache' = IF ok THEN DeleteRows(image_cache, frame[p].query) ELSE image_cache
    /\ UNCHANGED << UNSPLASH_ACCESS_KEY, AI_AVAILABLE, fallback_seen, retry, selector >>

TxDelete(p) ==
    /\ frame[p].pc = "delete"
    /\ \E ok \in BOOLEAN :
         /\ ok => write_lock = 0
         /\ frame' = [ frame EXCEPT ![p] = AfterDelete(@, image_cache, ok) ]
         /\ write_lock' = IF ok THEN p ELSE write_lock
    /\ UNCHANGED << image_cache, UNSPLASH_ACCESS_KEY, AI_AVAILABLE, fallback_seen, retry, selector >>

\* Mutant of TxInsert: every INSERT is committed as it is executed, so the
\* other connections see the rows one by one.
TxInsertAutocommit(p) ==
    /\ frame[p].pc = "insert"
    /\ \E ok \in BOOLEAN :
         frame' = [ frame EXCEPT ![p] =
                      IF ~ok THEN [ @ EXCEPT !.tx = {}, !.cache_write = "rolled_back", !.pc = "pad" ]
                      ELSE [ @ EXCEPT !.tx = @ \cup { [ query |-> frame[p].query,
                                                         image_index |-> frame[p].insert_idx,
                                                         image_url |-> frame[p].accumulated_images[frame[p].insert_idx + 1].url,
                                                         photographer |-> frame[p].accumulated_images[frame[p].insert_idx + 1].photographer,
                                                         photographer_url |-> frame[p].accumulated_images[frame[p].insert_idx + 1].photographer_url ] },
                                      !.insert_idx = @ + 1,
                                      !.pc = IF frame[p].insert_idx + 1 >= Len(frame[p].accumulated_images)
                                             THEN "commit" ELSE "insert" ] ]
    /\ write_lock' = IF frame'[p].pc = "pad" THEN 0 ELSE write_lock
    /\ image_cache' = IF frame'[p].pc = "pad" THEN image_cache ELSE frame'[p].tx
    /\ UNCHANGED << UNSPLASH_ACCESS_KEY, AI_AVAILABLE, fallback_seen, retry, selector >>

\* The INSERT of accumulated_images[insert_idx]; UNIQUE(query, image_index)
\* rejects a second row of the same key.
AfterInsert(f, ok) ==
    LET row == RowOfImage(f.query, f.insert_idx, f.accumulated_images[f.insert_idx + 1])
        clash == \E r \in f.tx : r.query = row.query /\ r.image_index = row.image_index
    IN  IF ~ok \/ clash THEN Rollback(f)
        ELSE [ f EXCEPT !.tx = @ \cup {row}, !.insert_idx = @ + 1,
                        !.pc = IF f.insert_idx + 1 >= Len(f.accumulated_images)
                               THEN "commit" ELSE "insert" ]

TxInsert(p) ==
    /\ frame[p].pc = "insert"
    /\ \E ok \in BOOLEAN :
         frame' = [ frame EXCEPT ![p] = AfterInsert(@, ok) ]
    /\ write_lock' = IF frame'[p].pc = "pad" THEN 0 ELSE write_lock
    /\ UNCHANGED << image_cache, UNSPLASH_ACCESS_KEY, AI_AVAILABLE, fallback_seen, retry, selector >>

\* The table after db.commit() of a transaction whose view is tx.
Committed(table, tx) == tx

\* db.commit()
TxCommit(p) ==
    /\ frame[p].pc = "commit"
    /\ \E ok \in BOOLEAN :
         IF ok
         THEN /\ image_cache' = Committed(image_cache, frame[p].tx)
              /\ frame' = [ frame EXCEPT ![p] =
                              [ @ EXCEPT !.tx = {}, !.cache_write = "committed", !.pc = "pad" ] ]
         ELSE /\ frame' = [ frame EXCEPT ![p] = Rollback(@) ]
              /\ UNCHANGED image_cache
    /\ write_lock' = 0
    /\ UNCHANGED << UNSPLASH_ACCESS_KEY, AI_AVAILABLE, fallback_seen, retry, selector >>

\* Mutant of AfterPad: after a failed cache write the call gives up the
\* search images and returns fallback images only.
AfterPadDropsOnRollback(f0) ==
    LET f == AfterWalk(f0) IN
    IF f.cache_write = "rolled_back"
    THEN LET fallbacks == CallFallback(f.query, f.count)
         IN  [ f EXCEPT !.pc = "done", !.fallback_needed = f.count,
                        !.fallbacks = fallbacks, !.result = fallbacks ]
    ELSE IF Len(f.accumulated_images) < f.count
    THEN LET fallback_needed == f.count - Len(f.accumulated_images)
             fallbacks == CallFallback(f.query, fallback_needed)
             padded == PadWithFallbacks(fallbacks, f.accumulated_images, f.count)
         IN  [ f EXCEPT !.pc = "done", !.fallback_needed = fallback_needed,
                        !.fallbacks = fallbacks, !.result = Take(padded, f.count) ]
    ELSE [ f EXCEPT !.pc = "done", !.result = Take(f.accumulated_images, f.count) ]

\* The padding with fallback images and `return accumulated_images[:count]`.
AfterPad(f0) ==
    LET f == AfterWalk(f0) IN
    IF Len(f.accumulated_images) < f.count
    THEN LET fallback_needed == f.count - Len(f.accumulated_images)
             fallbacks == CallFallback(f.query, fallback_needed)
             padded == PadWithFallbacks(fallbacks, f.accumulated_images, f.count)
         IN  [ f EXCEPT !.pc = "done", !.fallback_needed = fallback_needed,
                        !.fallbacks = fallbacks, !.result = Take(padded, f.count) ]
    ELSE [ f EXCEPT !.pc = "done", !.result = Take(f.accumulated_images, f.count) ]

Pad(p) ==
    /\ frame[p].pc = "pad"
    /\ frame' = [ frame EXCEPT ![p] = AfterPad(@) ]
    /\ UNCHANGED << image_cache, UNSPLASH_ACCESS_KEY, AI_AVAILABLE, write_lock, fallback_seen, retry, selector >>

\* The caller takes the returned list, or the exception.
Return(p) ==
    /\ frame[p].pc \in { "done", "raised" }
    /\ frame' = [ frame EXCEPT ![p] = IdleFrame ]
    /\ UNCHANGED << image_cache, UNSPLASH_ACCESS_KEY, AI_AVAILABLE, write_lock, fallback_seen, retry, selector >>

\* The server is started again while no call runs: the environment is read
\* anew, the database file stays.
Restart ==
    /\ \A p \in Procs : frame[p].pc = "idle"
    /\ UNSPLASH_ACCESS_KEY' \in BOOLEAN
    /\ AI_AVAILABLE' \in BOOLEAN
    /\ UNCHANGED << image_cache, write_lock, frame, fallback_seen, retry, selector >>

\* The queries get_fallback_images is run with by itself, and the largest
\* count: one past the primary pool, so that a second pool is drawn from.
SelectorQueries == { "Jaipur India", "Fort Hill" }

MaxSelectorCount == 5

\* sorted_types and matched_type of these queries, computed once.
SelectorTypes ==
    [ query \in SelectorQueries |->
        [ sorted_types |-> SortedTypes(query), matched_type |-> MatchedType(query) ] ]

\* get_fallback_images(query, count) runs by itself, in whatever state the
\* server is in: the activation enters, runs its loops and returns.
\* History: the first activation is remembered with the cache it ran beside;
\* of a later one, that it ran (again) and beside which cache.
CallSelector ==
    /\ \E query \in SelectorQueries, count \in 1..MaxSelectorCount :
         LET types == SelectorTypes[query]
             run   == RunFallback(EnterFallback(selector.locals), types.sorted_types,
                                  types.matched_type, count)
         IN  /\ selector' = [ query |-> query, count |-> count,
                              locals |-> run.locals, images |-> run.images ]
             /\ fallback_seen' =
                   IF fallback_seen = << >>
                   THEN << [ query |-> query, count |-> count, images |-> run.images,
                             cache |-> image_cache, again |-> FALSE,
                             cache_again |-> image_cache ] >>
                   ELSE << [ fallback_seen[1] EXCEPT !.again = TRUE,
                                                     !.cache_again = image_cache ] >>
    /\ UNCHANGED << image_cache, UNSPLASH_ACCESS_KEY, AI_AVAILABLE, write_lock, frame, retry >>

\* A caller calls retry_with_backoff(func, max_retries, initial_delay).
CallRetry ==
    /\ retry.pc = "idle"
    /\ \E m \in 0..MaxRetries, d \in InitialDelays :
         retry' = [ IdleRetry EXCEPT !.pc = "loop", !.max_retries = m, !.initial_delay = d ]
    /\ UNCHANGED << image_cache, UNSPLASH_ACCESS_KEY, AI_AVAILABLE, write_lock, frame,
                    fallback_seen, selector >>

\* The next pass of the loop of retry_with_backoff, or its end.
RetryStep ==
    /\ retry.pc = "loop"
    /\ IF retry.attempt < retry.max_retries
       THEN \E outcome \in FuncOutcomes : retry' = AfterFunc(retry, outcome)
       ELSE retry' = AfterLoop(retry)
    /\ UNCHANGED << image_cache, UNSPLASH_ACCESS_KEY, AI_AVAILABLE, write_lock, frame,
                    fallback_seen, selector >>

\* The caller takes the result, or the exception.
RetryReturn ==
    /\ retry.pc \in { "returned", "raised" }
    /\ retry' = IdleRetry
    /\ UNCHANGED << image_cache, UNSPLASH_ACCESS_KEY, AI_AVAILABLE, write_lock, frame,
                    fallback_seen, selector >>

\* A handler calls with one of the queries qs; the count is at most MaxCount
\* where the call may search and at most maxNoKey where it cannot.
CallAny(p, qs, maxNoKey) ==
    \E q \in qs, c \in 1..(IF UNSPLASH_ACCESS_KEY THEN MaxCount ELSE maxNoKey) :
        Call(p, q, c)

\* The steps of a running call.
Pipeline(p) ==
    \/ CacheLookup(p)
    \/ SearchAttempt(p)
    \/ EndSearch(p)
    \/ RankAttempt(p)
    \/ TxDelete(p)
    \/ TxInsert(p)
    \/ TxCommit(p)
    \/ Pad(p)
    \/ Return(p)

\* One call at a time, for one query.
Next ==
    \/ CallAny(1, { "Jaipur India" }, MaxFallbackCount)
    \/ Pipeline(1)
    \/ Restart

Spec == Init /\ [][Next]_vars

\* The calls of a server without search credential, for every query: each
\* one is answered from the cache or by get_fallback_images.
InitNoKey == Init /\ ~UNSPLASH_ACCESS_KEY

NextFallback ==
    \/ CallAny(1, Queries, MaxFallbackCount)
    \/ CacheLookup(1)
    \/ Return(1)

SpecFallback == InitNoKey /\ [][NextFallback]_vars

\* Concurrent calls for one query, on a server with the search credential and
\* without AI client.  A search answers an empty page, a page of one photo
\* or one of two pages of the same two photos.
ConcurrentPages ==
    { << >>, << PhotoFort >>, << PhotoFort, PhotoScenic >>, << PhotoScenic, PhotoFort >> }

ConcurrentResponses(room) ==
    { [ status |-> 200, valid |-> TRUE, results |-> r ] :
        r \in { page \in ConcurrentPages : Len(page) <= room } }

InitConcurrent == Init /\ UNSPLASH_ACCESS_KEY /\ ~AI_AVAILABLE

NextConcurrent ==
    \E p \in Procs :
        \/ CallAny(p, { "Jaipur India" }, MaxCount)
        \/ CacheLookup(p)
        \/ SearchWith(p, ConcurrentResponses(MaxRaw - Len(frame[p].raw_photo_data)))
        \/ EndSearch(p)
        \/ TxDelete(p)
        \/ TxInsert(p)
        \/ TxCommit(p)
        \/ Pad(p)
        \/ Return(p)

SpecConcurrent == InitConcurrent /\ [][NextConcurrent]_vars

\* The most photos of one search page, and of one call, where pages are long.
MaxLongPage == 3

\* One call at a time on a server with the search credential and without AI
\* client, the search answering status 500 or pages of up to MaxLongPage
\* photos, among them one whose tags cannot be read.
LongPageResponses(room) ==
    { [ status |-> 500, valid |-> FALSE, results |-> << >> ] }
    \cup { [ status |-> 200, valid |-> TRUE, results |-> r ] :
             r \in SeqsUpTo({ PhotoFort, PhotoScenic, PhotoBadTags },
                            IF room < MaxLongPage THEN room ELSE MaxLongPage) }

NextLongPage ==
    \/ CallAny(1, { "Jaipur India" }, MaxCount)
    \/ CacheLookup(1)
    \/ SearchWith(1, LongPageResponses(MaxLongPage - Len(frame[1].raw_photo_data)))
    \/ EndSearch(1)
    \/ TxDelete(1)
    \/ TxInsert(1)
    \/ TxCommit(1)
    \/ Pad(1)
    \/ Return(1)

SpecLongPage == InitConcurrent /\ [][NextLongPage]_vars

\* The largest count of a call where counts are large.
MaxLargeCount == 3

\* One call at a time with counts up to MaxLargeCount, the search answering
\* as in SpecLongPage.
NextLargeCount ==
    \/ \E c \in 1..MaxLargeCount : Call(1, "Jaipur India", c)
    \/ CacheLookup(1)
    \/ SearchWith(1, LongPageResponses(MaxLongPage - Len(frame[1].raw_photo_data)))
    \/ EndSearch(1)
    \/ TxDelete(1)
    \/ TxInsert(1)
    \/ TxCommit(1)
    \/ Pad(1)
    \/ Return(1)

SpecLargeCount == InitConcurrent /\ [][NextLargeCount]_vars

\* Calls of retry_with_backoff on a server with AI client.  func ends every
\* time it is called and time.sleep ends, so a running call of the helper
\* takes its next step.
NextRetry ==
    \/ CallRetry
    \/ RetryStep
    \/ RetryReturn

InitRetry == Init /\ UNSPLASH_ACCESS_KEY /\ AI_AVAILABLE

SpecRetry == InitRetry /\ [][NextRetry]_vars /\ WF_vars(RetryStep)

\* Calls for several queries, one at a time; among the queries one whose
\* words are all struck by the sanitizing.  The search answers status 500 or
\* one of ConcurrentPages; a model raises, or answers a ranking that names no
\* candidate, or the ranking that puts the last candidate first.
SearchedQueries == { "Jaipur India", "selfie -x", "Goa Selfie -crowd" }

QueriesResponses(room) ==
    { [ status |-> 500, valid |-> FALSE, results |-> << >> ] }
    \cup ConcurrentResponses(room)

QueriesRankResponses(n) ==
    { [ kind |-> "exception", ranked |-> << >> ],
      [ kind |-> "json", ranked |-> << JsonInt(n) >> ],
      [ kind |-> "json", ranked |-> << JsonInt(n - 1), JsonInt(0) >> ] }

NextQueries ==
    \/ CallAny(1, SearchedQueries, MaxCount)
    \/ CacheLookup(1)
    \/ SearchWith(1, QueriesResponses(MaxRaw - Len(frame[1].raw_photo_data)))
    \/ EndSearch(1)
    \/ RankWith(1, QueriesRankResponses(Len(frame[1].raw_photo_data)))
    \/ TxDelete(1)
    \/ TxInsert(1)
    \/ TxCommit(1)
    \/ Pad(1)
    \/ Return(1)
    \/ Restart

SpecQueries == Init /\ [][NextQueries]_vars

\* get_fallback_images run by itself between the calls of
\* fetch_unsplash_images, which search, write the cache and pad, on a server
\* with the search credential and without AI client.
NextSelector ==
    \/ CallAny(1, { "Jaipur India" }, MaxCount)
    \/ CacheLookup(1)
    \/ SearchWith(1, ConcurrentResponses(MaxRaw - Len(frame[1].raw_photo_data)))
    \/ EndSearch(1)
    \/ TxDelete(1)
    \/ TxInsert(1)
    \/ TxCommit(1)
    \/ Pad(1)
    \/ Return(1)
    \/ CallSelector

SpecSelector == InitConcurrent /\ [][NextSelector]_vars

(***************************************************************************)
(* Properties                                                              *)
(***************************************************************************)
Min(a, b) == IF a < b THEN a ELSE b

\* D: the number of distinct URLs of the six pools.
D == Cardinality(AllPoolUrls)

Urls(images) == { images[i].url : i \in DOMAIN images }

Returned(p) == frame[p].pc = "done"

\* C1: for every count in 1..D a call that returns, returns exactly count
\* images, never fewer.
C1_ReturnsExactlyCount ==
    \A p \in Procs :
        Returned(p) /\ frame[p].count <= D => Len(frame[p].result) = frame[p].count

\* C2: a call returns fewer than count images only if the rows cached for the
\* query, the candidates of the search and the pools hold fewer than count
\* distinct URLs together.  (The pools, the cached rows read by the call and
\* the returned URLs are all part of that universe.)
C2_FewerOnlyIfUniverseSmall ==
    \A p \in Procs :
        Returned(p) /\ Len(frame[p].result) < frame[p].count
            => Cardinality(AllPoolUrls
                             \cup { frame[p].cached[i].image_url : i \in DOMAIN frame[p].cached }
                             \cup Urls(frame[p].result)) < frame[p].count

\* C3: no two entries of a returned list have the same url, on every path and
\* after any sequence of earlier calls from an empty cache.
C3_NoDuplicateUrls ==
    \A p \in Procs :
        Returned(p) =>
            \A i, j \in DOMAIN frame[p].result :
                i # j => frame[p].result[i].url # frame[p].result[j].url

\* C3's case: a returned list that holds a search image followed by a padded
\* fallback image, after the search image was written to the cache.
C3_Witness ==
    \E p \in Procs :
        /\ Returned(p) /\ Len(frame[p].result) = 2
        /\ frame[p].result[1].photographer # "Unsplash"
        /\ frame[p].result[2].photographer = "Unsplash"
        /\ frame[p].cache_write = "committed"

\* C4: a call never ends in an error visible to its caller, whatever the
\* search service, the ranking service and the cache write do.
C4_NeverRaises ==
    \A p \in Procs : frame[p].pc # "raised"

\* C5: every call ends by returning: it issues at most 5 search requests and
\* at most 2 ranking requests, never waits (a running call can always take its
\* next step) and ends with a returned list.
C5_BoundedAndReturns ==
    \A p \in Procs :
        /\ frame[p].n_search <= max_attempts
        /\ frame[p].n_rank <= Len(models_to_try)
        /\ frame[p].pc \notin { "idle", "done", "raised" } => ENABLED Pipeline(p)
        /\ frame[p].pc # "raised"

\* The rows of the query of call p, as the cache holds them.
QueryRows(p) == RowsOf(image_cache, frame[p].query)

\* C6: if the cache holds at least c rows for the query, the call returns
\* exactly the c rows of lowest rank in ascending rank order, converted field
\* by field, with no search request and no ranking request, with or without
\* a credential.
C6_CacheHit ==
    \A p \in Procs :
        Returned(p) /\ Len(frame[p].cached) >= frame[p].count =>
            /\ Len(frame[p].result) = frame[p].count
            /\ \A i \in 1..frame[p].count :
                 \E r \in QueryRows(p) :
                    /\ Cardinality({ s \in QueryRows(p) : s.image_index < r.image_index }) = i - 1
                    /\ frame[p].result[i].url = r.image_url
                    /\ frame[p].result[i].photographer = r.photographer
                    /\ frame[p].result[i].photographer_url = r.photographer_url
            /\ frame[p].n_search = 0 /\ frame[p].n_rank = 0

\* C6's case: two cached rows returned while no credential is configured.
C6_Witness ==
    \E p \in Procs :
        /\ Returned(p) /\ frame[p].count = 2 /\ Len(frame[p].cached) = 2
        /\ ~UNSPLASH_ACCESS_KEY

\* The rows a committed replacement leaves for the query of call p.
NewRows(p) ==
    { RowOfImage(frame[p].query, i - 1, frame[p].accumulated_images[i]) :
        i \in DOMAIN frame[p].accumulated_images }

\* C7: the replacement is all or nothing: after a failed write the query has
\* exactly the rows it had before the call, after a committed one exactly the
\* new rows.
C7_AllOrNothing ==
    \A p \in Procs :
        frame[p].pc \in { "pad", "done" } =>
            /\ frame[p].cache_write = "rolled_back" => QueryRows(p) = frame[p].old_rows
            /\ frame[p].cache_write = "committed" => QueryRows(p) = NewRows(p)

\* C7's case: a write that failed after its DELETE and an INSERT, for a query
\* that had rows before.
C7_Witness ==
    \E p \in Procs :
        /\ frame[p].pc = "pad" /\ frame[p].cache_write = "rolled_back"
        /\ frame[p].old_rows # {} /\ frame[p].insert_idx >= 1

\* The case of C8: no credential, and fewer than count rows cached.
NoKeyMiss(p) ==
    Returned(p) /\ ~UNSPLASH_ACCESS_KEY /\ Len(frame[p].cached) < frame[p].count

FallbackAttribution(images) ==
    \A i \in DOMAIN images :
        /\ images[i].photographer = "Unsplash"
        /\ images[i].photographer_url = "https://unsplash.com"

\* C8 as stated: without a credential and on a cache miss the call returns the
\* result of get_fallback_images(query, count), exactly count images with the
\* fallback attribution, with no search, no ranking and no cache write.
C8_NoKeyExactlyCount ==
    \A p \in Procs :
        NoKeyMiss(p) =>
            /\ frame[p].result = get_fallback_images(frame[p].query, frame[p].count)
            /\ Len(frame[p].result) = frame[p].count
            /\ FallbackAttribution(frame[p].result)
            /\ frame[p].n_search = 0 /\ frame[p].n_rank = 0
            /\ frame[p].cache_write = "none"

\* C8 amended: the same with min(count, D) images, which is count up to the
\* D = 23 distinct URLs of the pools.
C8_NoKeyFallback ==
    \A p \in Procs :
        NoKeyMiss(p) =>
            /\ frame[p].result = get_fallback_images(frame[p].query, frame[p].count)
            /\ Len(frame[p].result) = Min(frame[p].count, D)
            /\ D = 23
            /\ FallbackAttribution(frame[p].result)
            /\ frame[p].n_search = 0 /\ frame[p].n_rank = 0
            /\ frame[p].cache_write = "none"

\* C8's case: no credential, one row cached, two images asked for.
C8_Witness ==
    \E p \in Procs :
        NoKeyMiss(p) /\ Len(frame[p].cached) = 1 /\ frame[p].count = 2

\* C9: when the HTTP call of every attempt fails, the search phase ends only
\* after all variations, with both lists empty, and the call returns
\* get_fallback_images(query, count) without ranking and without cache write.
C9_AllAttemptsFail ==
    \A p \in Procs :
        /\ frame[p].pc = "searched" /\ frame[p].http_failed = frame[p].attempt =>
              /\ frame[p].attempt = max_attempts
              /\ frame[p].raw_photo_data = << >>
              /\ frame[p].filtered_photo_data = << >>
        /\ Returned(p) /\ frame[p].n_search > 0 /\ frame[p].http_failed = frame[p].n_search =>
              /\ frame[p].n_search = max_attempts
              /\ frame[p].result = get_fallback_images(frame[p].query, frame[p].count)
              /\ frame[p].n_rank = 0
              /\ frame[p].cache_write = "none" /\ frame[p].tx = {}

\* C9's case: a call that returned after five failed HTTP calls.
C9_Witness ==
    \E p \in Procs :
        Returned(p) /\ frame[p].http_failed = max_attempts /\ frame[p].count = 2

\* C10: get_fallback_images is deterministic and stateless: an activation
\* with the arguments of a remembered earlier one returns the remembered list
\* (same URLs in the same order, same attribution), whatever the server did
\* in between, and so does fetch_unsplash_images where it calls the function
\* with these arguments.
C10_FallbackDeterministic ==
    fallback_seen # << >> =>
        /\ selector.query = fallback_seen[1].query /\ selector.count = fallback_seen[1].count
              => selector.images = fallback_seen[1].images
        /\ \A p \in Procs :
              /\ Returned(p) /\ frame[p].fallback_needed > 0
              /\ frame[p].query = fallback_seen[1].query
              /\ frame[p].fallback_needed = fallback_seen[1].count
              => frame[p].fallbacks = fallback_seen[1].images

\* C10's case: an activation later than the remembered one has its arguments
\* and draws from a second pool; fetch_unsplash_images has changed the cache
\* of the query in between, and the activation before this one has left the
\* URLs it used.
C10_Witness ==
    /\ fallback_seen # << >>
    /\ fallback_seen[1].again
    /\ selector.query = fallback_seen[1].query /\ selector.count = fallback_seen[1].count
    /\ selector.query = "Jaipur India" /\ selector.count = MaxSelectorCount
    /\ fallback_seen[1].cache_again # fallback_seen[1].cache

\* The pool the claim C11 names for a query: the one of highest score, the
\* first declared among several of that score, scenic when every score is 0.
HighestPool(query) ==
    LET query_lower == Lower(query)
        scores == [ i \in DOMAIN destination_types |-> Score(query_lower, i) ]
        top    == CHOOSE s \in Range(scores) : \A t \in Range(scores) : s >= t
        first  == CHOOSE i \in DOMAIN scores :
                    scores[i] = top /\ \A j \in DOMAIN scores : scores[j] = top => i <= j
    IN  IF top = 0 THEN "scenic" ELSE PoolNames[first]

\* C11: get_fallback_images takes as primary pool the pool of highest keyword
\* score for the lower-cased query, the first declared one among equal
\* positive scores, scenic when every pool scores 0: its result starts with
\* the URLs of that pool, in the pool's order.  "desert canyon trip" selects
\* the desert pool.
C11_PrimaryPool ==
    \A p \in Procs :
        Returned(p) /\ frame[p].fallback_needed > 0 =>
            LET pool == all_fallback_urls[HighestPool(frame[p].query)]
            IN  /\ \A i \in 1..Min(frame[p].fallback_needed, Len(pool)) :
                      frame[p].fallbacks[i] = FallbackImage(pool[i])
                /\ frame[p].query = "desert canyon trip" =>
                      frame[p].fallbacks[1].url = PoolUrl("/photo-1509316785289-025f5b846b35")

\* C11's case: a query in which two pools share the highest score (nature
\* through "hill", heritage through "fort").
C11_Witness ==
    \E p \in Procs :
        /\ Returned(p) /\ frame[p].fallback_needed = 2 /\ frame[p].query = "Fort Hill"
        /\ frame[p].fallbacks[1].url = PoolUrl("/photo-1506905925346-21bda4d32df4")

\* select_best_destination_images has returned to call p: its list is in the
\* frame (it is never empty for the candidates fetch_unsplash_images passes).
RankerReturned(p) == frame[p].ranked_indices # << >>

\* select_best_destination_images has left call p with an exception.
RankerRaised(p) == frame[p].pc = "raised" /\ frame[p].ranked_indices = << >>

\* C12: select_best_destination_images always returns a ranking and never
\* raises: the identity ordering with no model request when the AI client is
\* unavailable; otherwise the ranking of the first of the two variants that
\* answers parsable JSON with a non-empty ranked_indices, no later variant
\* being called; a variant that raises, answers unparsable text or an empty
\* ranking falls through to the next, and after both the identity ordering.
C12_RankerAlwaysReturns ==
    \A p \in Procs :
        LET f == frame[p]
            n == Len(f.raw_photo_data)
        IN  /\ ~RankerRaised(p)
            /\ f.n_rank <= Len(models_to_try)
            /\ RankerReturned(p) /\ ~AI_AVAILABLE =>
                  f.ranked_indices = IdentityRanking(n) /\ f.n_rank = 0
            /\ f.pc = "ranking" =>
                  \A resp \in RankResponses(n) :
                      LET g == AfterModel(f, resp)
                      IN  IF resp.kind = "json" /\ resp.ranked # << >>
                          THEN g.ranked_indices = resp.ranked /\ g.pc # "ranking"
                               /\ g.n_rank = f.n_rank + 1
                          ELSE IF f.model_idx + 1 < Len(models_to_try)
                          THEN g.pc = "ranking" /\ g.n_rank = f.n_rank + 1
                          ELSE g.ranked_indices = IdentityRanking(n) /\ g.pc # "ranking"

\* C13: the list select_best_destination_images returns for n candidates is
\* a sequence of pairwise distinct integers, each in 0..n-1.
C13_RankingIsPartialPermutation ==
    \A p \in Procs :
        RankerReturned(p) =>
            LET ranked == frame[p].ranked_indices
                n == Len(frame[p].raw_photo_data)
            IN  /\ \A i \in DOMAIN ranked :
                      ranked[i].kind = "int" /\ ranked[i].value \in 0..(n - 1)
                /\ \A i, j \in DOMAIN ranked : i # j => ranked[i] # ranked[j]

\* C14: under every interleaving of concurrent calls for one query the table
\* that the other connections read changes only by a commit, which puts the
\* full set of rows of the committing call in the place of the query's rows
\* and leaves the other queries alone; so a reader never sees rows deleted
\* but not replaced or rows of two writers, the rows are those of the last
\* committed replacement, and no (query, rank) has two rows.
C14_ConcurrentReplace ==
    /\ [](\A r1, r2 \in image_cache :
             r1.query = r2.query /\ r1.image_index = r2.image_index => r1 = r2)
    /\ [][image_cache' # image_cache =>
             \E w \in Procs :
                 /\ frame[w].pc = "commit" /\ frame'[w].cache_write = "committed"
                 /\ write_lock = w
                 /\ RowsOf(image_cache', frame[w].query) = NewRows(w)
                 /\ DeleteRows(image_cache', frame[w].query)
                      = DeleteRows(image_cache, frame[w].query)]_vars
    /\ [][\A p \in Procs :
             frame[p].pc = "lookup" /\ frame'[p].pc # "lookup" =>
                 frame'[p].cached
                   = SelectCached(image_cache, frame[p].query, frame[p].count)]_vars

\* C14's case: two calls that both found the cache empty and both committed
\* a replacement, with different rows.
C14_Witness ==
    /\ \A p \in Procs :
          /\ Returned(p) /\ frame[p].cached = << >>
          /\ frame[p].cache_write = "committed"
    /\ NewRows(1) # NewRows(2)
    /\ Cardinality(NewRows(1)) = 2 /\ Cardinality(NewRows(2)) = 2

\* The three parameters the claim C15 names, with their defaults.
DefaultParams == { << "auto", "format" >>, << "q", "80" >>, << "w", "1200" >> }

\* What C15 says of the URL url made from the candidate URL base_url.
ParamsOptimized(base_url, url) ==
    LET given  == Range(base_url.params)
        result == Range(url.params)
        Keys(kvs) == { kv[1] : kv \in kvs }
    IN  /\ url.path = base_url.path
        /\ { "auto", "q", "w" } \subseteq Keys(result)
        /\ given \subseteq result
        /\ \A d \in DefaultParams : d[1] \notin Keys(given) => d \in result
        /\ result \subseteq given \cup DefaultParams
        /\ Cardinality(Keys(result)) = Len(url.params)
        /\ Keys(given) \cap { "auto", "q", "w" } = {} =>
              url.params = << << "auto", "format" >>, << "q", "80" >>, << "w", "1200" >> >>

\* The images of a list that come from search candidates.
FromSearch(images) == { images[i] : i \in { j \in DOMAIN images : images[j].photographer # "Unsplash" } }

\* C15: the URL of every image taken from a search candidate carries auto, q
\* and w; a key of these that the candidate's URL has keeps its value, a
\* missing one gets its default (auto=format, q=80, w=1200), every other
\* parameter of the candidate's URL is kept with its value; a candidate URL
\* with none of the three gets exactly auto=format, q=80, w=1200.
C15_UrlParameters ==
    \A p \in Procs :
        \A img \in FromSearch(frame[p].accumulated_images) \cup FromSearch(frame[p].result) :
            \E photo \in Photos :
                /\ photo.name = img.photographer
                /\ ParamsOptimized(photo.regular, img.url)

\* C15's case: a returned image whose candidate URL carries w=400 and
\* fit=max, and one whose candidate URL carries no parameter.
C15_Witness ==
    \E p \in Procs :
        /\ Returned(p) /\ Len(frame[p].result) = 2
        /\ frame[p].result[1].photographer = PhotoSelfie.name
        /\ << "w", "400" >> \in Range(frame[p].result[1].url.params)
        /\ frame[p].result[2].photographer = PhotoBadTags.name
        /\ Len(frame[p].result[2].url.params) = 3

\* C16: in every state reached from the empty cache, through any answers of
\* the services and any write failures, the rows of each query have the ranks
\* 0..n-1 without gap, one row per (query, rank) and pairwise distinct URLs;
\* after a committed replacement row i holds the i-th accumulated image.
C16_CacheShape ==
    /\ \A q \in Queries :
          LET rows == RowsOf(image_cache, q)
          IN  /\ { r.image_index : r \in rows } = 0..(Cardinality(rows) - 1)
              /\ \A r1, r2 \in rows :
                    r1 # r2 => /\ r1.image_index # r2.image_index
                               /\ r1.image_url # r2.image_url
    /\ \A p \in Procs :
          frame[p].pc \in { "pad", "done" } /\ frame[p].cache_write = "committed" =>
              /\ Cardinality(QueryRows(p)) = Len(frame[p].accumulated_images)
              /\ \A i \in DOMAIN frame[p].accumulated_images :
                    \E r \in QueryRows(p) :
                        /\ r.image_index = i - 1
                        /\ ImageOfRow(r) = frame[p].accumulated_images[i]

\* C16's case: a committed replacement of two rows in the place of an earlier
\* row of the query.
C16_Witness ==
    \E p \in Procs :
        /\ frame[p].pc = "pad" /\ frame[p].cache_write = "committed"
        /\ Cardinality(frame[p].old_rows) = 1
        /\ Len(frame[p].accumulated_images) = 2

\* C17: a failure of the cache write does not change what the call returns:
\* of two calls with the same query and count whose search and ranking led to
\* the same accumulated images, one whose replacement committed and one whose
\* replacement failed and was rolled back, both return the same list.
C17_WriteFailureKeepsResult ==
    \A p1, p2 \in Procs :
        /\ Returned(p1) /\ Returned(p2)
        /\ frame[p1].query = frame[p2].query /\ frame[p1].count = frame[p2].count
        /\ frame[p1].accumulated_images = frame[p2].accumulated_images
        /\ frame[p1].cache_write = "committed" /\ frame[p2].cache_write = "rolled_back"
        => frame[p1].result = frame[p2].result

\* C17's case: two such calls for two images, of which one is padded, the
\* write of one committed and the write of the other rolled back.
C17_Witness ==
    \E p1, p2 \in Procs :
        /\ Returned(p1) /\ Returned(p2)
        /\ frame[p1].count = 2 /\ frame[p2].count = 2
        /\ frame[p1].accumulated_images = frame[p2].accumulated_images
        /\ Len(frame[p1].accumulated_images) = 1
        /\ frame[p1].cache_write = "committed" /\ frame[p2].cache_write = "rolled_back"
        /\ Len(frame[p1].result) = 2

\* Call p makes a search attempt in this step.
SearchStep(p) == frame[p].pc = "search" /\ frame'[p].n_search = frame[p].n_search + 1

\* C18: the search requests go out in the order of the query-variation list,
\* one per variation, the first with the sanitized base query; an attempt
\* that ends in a transport error, a status other than 200 or an exception
\* adds nothing to the raw list and nothing to the filtered list, and the
\* next variation is still attempted.
C18_SearchOrder ==
    /\ [](\A p \in Procs :
             /\ frame[p].n_search = Len(frame[p].requests)
             /\ frame[p].attempt = frame[p].n_search
             /\ \A i \in DOMAIN frame[p].requests :
                   frame[p].requests[i] = QueryVariations[frame[p].query][i]
             /\ frame[p].requests # << >> /\ frame[p].query = "Jaipur India" =>
                   frame[p].requests[1] = "jaipur india")
    /\ [][\A p \in Procs :
             SearchStep(p) /\ frame'[p].outcome # "ok" =>
                 /\ frame'[p].raw_photo_data = frame[p].raw_photo_data
                 /\ frame'[p].filtered_photo_data = frame[p].filtered_photo_data
                 /\ frame'[p].attempt < max_attempts => frame'[p].pc = "search"]_vars

\* C19: no search request is issued once the filtered list holds at least
\* 2 x count candidates, and while it holds fewer the next variation is
\* issued until all 5 are used: a call that is about to search has fewer
\* than 2 x count filtered candidates, and the search phase ends with at
\* least 2 x count of them or with all variations attempted.
C19_EarlyStop ==
    \A p \in Procs :
        /\ frame[p].pc = "search" =>
              Len(frame[p].filtered_photo_data) < 2 * frame[p].count
        /\ frame[p].pc = "searched" =>
              \/ Len(frame[p].filtered_photo_data) >= 2 * frame[p].count
              \/ frame[p].attempt = max_attempts

\* The photos that are people-focused in the sense of C20: a tag title, the
\* alt text or the description holds a block-listed keyword.
PeopleFocusedPhotos ==
    { photo \in Photos :
        \E keyword \in { "selfie", "portrait" } :
            \/ Contains(Lower(photo.alt_description), keyword)
            \/ Contains(Lower(photo.description), keyword)
            \/ \E i \in DOMAIN photo.tags :
                  photo.tags[i].dict /\ Contains(Lower(photo.tags[i].title), keyword) }

\* Call p has chosen its candidate list and still holds the lists of the
\* search phase (the ranker runs, or the walk has just ended).
CandidatesChosen(p) ==
    \/ frame[p].pc \in { "ranking", "delete" }
    \/ frame[p].pc \in { "pad", "raised" } /\ frame[p].ranked_indices # << >>

\* C20: the candidate list of the ranker and of the walk is the filtered list
\* when that is not empty, the raw list otherwise; so when the search has
\* collected a candidate that is not people-focused, no image of a
\* people-focused candidate is among the accumulated images, which are the
\* images the call returns and writes to the cache.
C20_PeopleFilter ==
    \A p \in Procs :
        CandidatesChosen(p) =>
            LET f == frame[p]
                collected == Range(f.raw_photo_data) \cup Range(f.filtered_photo_data)
            IN  /\ f.filtered_photo_data # << >> => f.raw_photo_data = f.filtered_photo_data
                /\ collected \ PeopleFocusedPhotos # {} =>
                      \A i \in DOMAIN f.accumulated_images :
                          \A photo \in PeopleFocusedPhotos :
                              f.accumulated_images[i].photographer # photo.name

\* The words of every string the model sends as a search query.
WordsOfRequest ==
    [ s \in UNION { Range(QueryVariations[q]) : q \in Queries } |-> Range(Split(s)) ]

\* The words of the sanitized base query of every query of the model.
SanitizedWords == [ q \in Queries |-> Range(Split(sanitized_query(q))) ]

\* The fixed words the variations add to the sanitized base.
SuffixWords ==
    { "landmark", "cityscape", "city", "architecture", "travel", "destination",
      "india", "rajasthan", "heritage", "tourist", "attraction", "beautiful" }

\* C21: no query string sent to the search service holds a block-listed
\* word (selfie, portrait) or a word that begins with "-": every word of a
\* sent string is a word of the sanitized base query or a fixed suffix word.
C21_RequestsSanitized ==
    \A p \in Procs :
        \A i \in DOMAIN frame[p].requests :
            \A word \in WordsOfRequest[frame[p].requests[i]] :
                /\ word \notin people_keywords
                /\ SubSeq(word, 1, 1) # "-"
                /\ word \in SanitizedWords[frame[p].query] \cup SuffixWords

\* The walk of call p has just ended without exception: the frame still
\* holds the candidate list and the ranking.
WalkEnded(p) ==
    /\ frame[p].pc \in { "delete", "pad" }
    /\ frame[p].ranked_indices # << >>

\* The entry at position i of the ranking names a candidate of cands.
NamesCandidate(ranked, cands, i) ==
    /\ IsIndex(ranked[i])
    /\ ranked[i].value < Len(cands)
    /\ ranked[i].value >= -Len(cands)

\* The candidate that the entry at position i of the ranking names.
CandidateAt(ranked, cands, i) == PyIndex(cands, ranked[i].value)

\* T is the set of ranking positions that a scan in order takes: a position
\* is taken exactly when it names a candidate, no position taken before it
\* has the same id or the same normalized URL, and fewer than count
\* positions were taken before it.
TakenByScan(T, ranked, cands, count) ==
    LET Before(i) == { j \in T : j < i }
        Clash(i)  == \E j \in Before(i) :
                        \/ CandidateAt(ranked, cands, j).id = CandidateAt(ranked, cands, i).id
                        \/ optimized_url(CandidateAt(ranked, cands, j).regular)
                             = optimized_url(CandidateAt(ranked, cands, i).regular)
    IN  \A i \in DOMAIN ranked :
            i \in T <=> /\ NamesCandidate(ranked, cands, i)
                        /\ Cardinality(Before(i)) < count
                        /\ ~Clash(i)

\* C22: the images accumulated from the search are those of the ranking
\* positions taken by a scan in order (a candidate is taken only if neither
\* its id nor its normalized URL was taken before, until count are taken):
\* they keep the ranking order, have pairwise distinct ids and URLs, carry
\* the candidate's user name and profile link, and come before every
\* fallback image of the returned list.  With at least count candidates of
\* pairwise distinct ids and URLs and an identity ranking they are the first
\* count candidates in order.
C22_ScanInRankingOrder ==
    \A p \in Procs :
        LET f      == frame[p]
            ranked == f.ranked_indices
            cands  == f.raw_photo_data
            acc    == f.accumulated_images
        IN  /\ WalkEnded(p) =>
                  /\ \E T \in SUBSET DOMAIN ranked :
                        /\ TakenByScan(T, ranked, cands, f.count)
                        /\ Len(acc) = Cardinality(T)
                        /\ \A i \in T :
                              LET k     == Cardinality({ j \in T : j < i }) + 1
                                  photo == CandidateAt(ranked, cands, i)
                              IN  /\ acc[k].url = optimized_url(photo.regular)
                                  /\ acc[k].photographer = photo.name
                                  /\ acc[k].photographer_url = photo.html
                        /\ \A i, j \in T :
                              i # j => CandidateAt(ranked, cands, i).id
                                         # CandidateAt(ranked, cands, j).id
                  /\ Len(acc) <= f.count
                  /\ \A k1, k2 \in DOMAIN acc : k1 # k2 => acc[k1].url # acc[k2].url
                  /\ ( /\ ranked = IdentityRanking(Len(cands))
                       /\ Len(cands) >= f.count
                       /\ \A i, j \in DOMAIN cands :
                             i # j => /\ cands[i].id # cands[j].id
                                      /\ optimized_url(cands[i].regular)
                                           # optimized_url(cands[j].regular) )
                       => acc = [ k \in 1..f.count |-> image_data(cands[k]) ]
            /\ Returned(p) /\ f.n_search > 0 =>
                  /\ \A k \in DOMAIN f.result :
                        IF k <= Len(acc) THEN f.result[k] = acc[k]
                        ELSE f.result[k] \in Range(f.fallbacks)
                  /\ Len(f.result) >= Min(Len(acc), f.count)

\* C22's case: a ranking that puts the second candidate first, the two
\* candidates having different ids and the same normalized URL: the walk has
\* taken the second candidate and skipped the first.
C22_Witness ==
    \E p \in Procs :
        /\ WalkEnded(p) /\ frame[p].count = 2
        /\ frame[p].raw_photo_data = << PhotoFort, PhotoFortCopy >>
        /\ frame[p].ranked_indices = << JsonInt(1), JsonInt(0) >>
        /\ frame[p].accumulated_images = << image_data(PhotoFortCopy) >>

\* The order of the pools that C23 names for a query: the primary pool, then
\* the others by descending score, equal scores in declaration order.
PoolOrder(query) ==
    LET query_lower == Lower(query)
        scores  == [ i \in DOMAIN destination_types |-> Score(query_lower, i) ]
        primary == HighestPool(query)
        n       == Len(destination_types)
    IN  CHOOSE order \in [ 1..n -> 1..n ] :
            /\ \A i \in 1..n : \E k \in 1..n : order[k] = i
            /\ PoolNames[order[1]] = primary
            /\ \A k, l \in 2..n :
                  k < l => \/ scores[order[k]] > scores[order[l]]
                           \/ /\ scores[order[k]] = scores[order[l]]
                              /\ order[k] < order[l]

RECURSIVE Concat(_)
\* The concatenation of a sequence of sequences.
Concat(seqs) == IF Len(seqs) = 0 THEN << >> ELSE Head(seqs) \o Concat(Tail(seqs))

\* seq without the later occurrences of its elements.
DuplicateFree(seq) ==
    LET keep == { i \in DOMAIN seq : \A j \in 1..(i - 1) : seq[j] # seq[i] }
    IN  [ k \in 1..Cardinality(keep) |->
            seq[CHOOSE i \in keep : Cardinality({ j \in keep : j < i }) = k - 1] ]

\* The duplicate-free concatenation of the pools in the order of C23, for
\* every query of the model.
PoolUrlsInOrder ==
    [ q \in Queries |->
        LET order == PoolOrder(q)
        IN  DuplicateFree(Concat([ k \in DOMAIN order |-> all_fallback_urls[PoolNames[order[k]]] ])) ]

\* C23: get_fallback_images(query, count) is the first min(count, D) elements
\* of the duplicate-free concatenation of the pools, primary pool first, then
\* the others by descending score with ties in declaration order: no URL
\* twice, only URLs of the pools, never more than count entries, fewer than
\* count only when count > D.
C23_FallbackIsPrefixOfPools ==
    \A p \in Procs :
        Returned(p) /\ frame[p].fallback_needed > 0 =>
            LET images == frame[p].fallbacks
                count  == frame[p].fallback_needed
                all    == PoolUrlsInOrder[frame[p].query]
            IN  /\ Len(all) = D
                /\ images = [ i \in 1..Min(count, D) |-> FallbackImage(all[i]) ]
                /\ \A i, j \in DOMAIN images : i # j => images[i].url # images[j].url
                /\ Urls(images) \subseteq AllPoolUrls
                /\ Len(images) <= count
                /\ Len(images) < count => count > D

\* C23's case: more images asked for than the pools hold, for a query in
\* which two pools share the highest score: all D URLs are returned.
C23_Witness ==
    \E p \in Procs :
        /\ Returned(p) /\ frame[p].query = "Fort Hill"
        /\ frame[p].fallback_needed = D + 2
        /\ Len(frame[p].fallbacks) = D

\* The error messages after which C24 allows another call.
Transient(msg) ==
    \E marker \in { "503", "UNAVAILABLE", "429", "RESOURCE_EXHAUSTED" } : Contains(msg, marker)

\* retry_with_backoff calls func in this step.
CallsFunc == retry'.calls = retry.calls + 1

\* C24: retry_with_backoff(func, max_retries = m >= 1) calls func at most m
\* times and always ends.  It returns the result of the first call that
\* succeeds and makes no call after it; it makes another call only after an
\* error whose message contains 503, UNAVAILABLE, 429 or RESOURCE_EXHAUSTED
\* and only while fewer than m calls were made; any other error, and a
\* transient error of the m-th call, is raised at once, with no further call
\* and no sleep.
C24_RetryBounded ==
    /\ [](retry.max_retries >= 1 =>
             /\ retry.calls <= retry.max_retries
             /\ retry.pc \in { "returned", "raised" } => retry.calls >= 1)
    /\ [][retry.max_retries >= 1 /\ CallsFunc =>
             /\ retry.pc = "loop" /\ retry.calls < retry.max_retries
             /\ retry.calls >= 1 => Transient(retry.error)
             /\ \/ /\ retry'.pc = "returned"
                   /\ retry'.result \in { o.value : o \in { x \in FuncOutcomes : x.ok } }
                   /\ retry'.slept = retry.slept
                \/ /\ retry'.pc = "raised"
                   /\ ~Transient(retry'.error) \/ retry'.calls = retry.max_retries
                   /\ retry'.slept = retry.slept
                \/ /\ retry'.pc = "loop"
                   /\ Transient(retry'.error) /\ retry'.calls < retry.max_retries
                   /\ Len(retry'.slept) = Len(retry.slept) + 1]_vars
    /\ [][retry.pc \in { "returned", "raised" } => retry' = IdleRetry]_vars
    /\ (retry.pc = "loop") ~> (retry.pc \in { "returned", "raised" })

\* C24's case: three calls allowed, the third call failed with a transient
\* error after two sleeps, and the error is raised.
C24_Witness ==
    /\ retry.pc = "raised" /\ retry.max_retries = 3 /\ retry.calls = 3
    /\ Transient(retry.error) /\ Len(retry.slept) = 2

\* C25: a call for query q never changes the cached rows of another query,
\* and the cache changes only in the commit of a call that found fewer than
\* count rows, runs with a credential and has accumulated an image: a call
\* served from the cache, a call without credential, a call whose search
\* collected no candidate and a call whose walk accumulated no image leave
\* the whole cache as it is and attempt no write.
C25_CacheFrame ==
    /\ [][\A q \in Queries :
             (\A p \in Procs : frame[p].query # q) =>
                 RowsOf(image_cache', q) = RowsOf(image_cache, q)]_vars
    /\ [][image_cache' # image_cache =>
             \E w \in Procs :
                 /\ frame[w].pc = "commit" /\ frame'[w].cache_write = "committed"
                 /\ Len(frame[w].cached) < frame[w].count
                 /\ UNSPLASH_ACCESS_KEY
                 /\ frame[w].n_search > 0
                 /\ frame[w].accumulated_images # << >>]_vars
    /\ [](\A c \in Procs :
             /\ Returned(c)
             /\ \/ Len(frame[c].cached) >= frame[c].count
                \/ ~UNSPLASH_ACCESS_KEY
                \/ frame[c].accumulated_images = << >>
             => frame[c].cache_write = "none" /\ frame[c].old_rows = {})

\* C25's case: a replacement for one query has committed while the cache
\* holds rows of another query.
C25_Witness ==
    \E p \in Procs :
        /\ frame[p].pc = "pad" /\ frame[p].cache_write = "committed"
        /\ frame[p].query = "selfie -x"
        /\ Cardinality(RowsOf(image_cache, "Jaipur India")) = 2


\* The images that the walk can make from the photos of the search service.
SearchImages == { image_data(photo) : photo \in Photos }

\* The images that get_fallback_images can supply.
FallbackImages == { FallbackImage(url) : url \in AllPoolUrls } \cup { DefaultFallbackImage }

\* C26: only images accumulated from ranked search candidates are written
\* to the cache: the rows a commit writes are the rows of the images
\* accumulated before any padding, no row (committed or in a transaction)
\* holds an image of get_fallback_images, a call on a fallback-only path
\* writes nothing, the padded part of a returned list is in no row, and a
\* cache hit returns no fallback image.
C26_OnlySearchImagesCached ==
    /\ [](\A p \in Procs :
             /\ \A r \in image_cache \cup frame[p].tx :
                   ImageOfRow(r) \in SearchImages \ FallbackImages
             /\ frame[p].pc \in { "delete", "insert", "commit" } =>
                   Range(frame[p].accumulated_images) \subseteq SearchImages \ FallbackImages
             /\ Returned(p) =>
                   /\ \A k \in DOMAIN frame[p].result :
                         k > Len(frame[p].accumulated_images)
                           /\ Len(frame[p].cached) < frame[p].count =>
                             /\ frame[p].result[k] \in FallbackImages
                             /\ \A r \in image_cache : ImageOfRow(r) # frame[p].result[k]
                   /\ frame[p].accumulated_images = << >> => frame[p].cache_write = "none"
                   /\ Len(frame[p].cached) >= frame[p].count =>
                         Range(frame[p].result) \cap FallbackImages = {})
    /\ [][\A w \in Procs :
             frame[w].pc = "commit" /\ frame'[w].cache_write = "committed" =>
                 /\ RowsOf(image_cache', frame[w].query) = NewRows(w)
                 /\ frame'[w].pc = "pad"
                 /\ frame'[w].accumulated_images = frame[w].accumulated_images]_vars

\* C26's case: a returned list of one search image and one padded fallback
\* image, after a commit that wrote the one row of the search image.
C26_Witness ==
    \E p \in Procs :
        /\ Returned(p) /\ frame[p].cache_write = "committed"
        /\ frame[p].accumulated_images = << image_data(PhotoFort) >>
        /\ Len(frame[p].result) = 2 /\ frame[p].result[2] \in FallbackImages
        /\ image_cache = NewRows(p)


\* The first c rows of query q in the table, as images, when the ranks of
\* the rows are 0..n-1.
FirstRows(table, q, c) ==
    [ i \in 1..c |-> ImageOfRow(CHOOSE r \in RowsOf(table, q) : r.image_index = i - 1) ]

\* C27: cached answers are stable and never expire.  The rows of a query
\* change only when a replacement for that query commits, whatever calls for
\* other queries and restarts happen; and in every state a call with count
\* c <= n, n the number of rows of its query, returns at its cache lookup the
\* first c rows with no search and no ranking request and without touching
\* the cache, so the answer for c is a prefix of the answer for every c'
\* with c <= c' <= n.
C27_CachedAnswersStable ==
    /\ [][\A q \in Queries :
             RowsOf(image_cache', q) # RowsOf(image_cache, q) =>
                 \E w \in Procs :
                     /\ frame[w].query = q /\ frame[w].pc = "commit"
                     /\ frame'[w].cache_write = "committed"]_vars
    /\ [][\A p \in Procs :
             LET f == frame[p]
                 n == Cardinality(RowsOf(image_cache, f.query))
             IN  f.pc = "lookup" /\ frame'[p].pc # "lookup" /\ f.count <= n =>
                     /\ frame'[p].pc = "done"
                     /\ frame'[p].result = FirstRows(image_cache, f.query, f.count)
                     /\ frame'[p].n_search = 0 /\ frame'[p].n_rank = 0
                     /\ image_cache' = image_cache
                     /\ \A c2 \in f.count..n :
                           frame'[p].result
                             = Take(AfterLookup([ f EXCEPT !.count = c2 ],
                                                SelectCached(image_cache, f.query, c2),
                                                UNSPLASH_ACCESS_KEY).result, f.count)]_vars

\* C27's case: a query has two rows, another query has rows too, the
\* credential is gone, and a call for one image has returned the first row.
C27_Witness ==
    \E p \in Procs :
        /\ Returned(p) /\ frame[p].count = 1 /\ Len(frame[p].cached) = 1
        /\ frame[p].query = "Jaipur India"
        /\ Cardinality(QueryRows(p)) = 2
        /\ RowsOf(image_cache, "selfie -x") # {}
        /\ ~UNSPLASH_ACCESS_KEY


\* C28: the number of cached rows of a query never decreases: no step, and so
\* no committed replacement, leaves a query with fewer rows than it had, and
\* a call whose count is at most the number of rows of its query is served
\* from the cache.
C28_RowsNeverDecrease ==
    /\ [][\A q \in Queries :
             Cardinality(RowsOf(image_cache', q)) >= Cardinality(RowsOf(image_cache, q))]_vars
    /\ [][\A p \in Procs :
             /\ frame[p].pc = "lookup" /\ frame'[p].pc # "lookup"
             /\ frame[p].count <= Cardinality(RowsOf(image_cache, frame[p].query))
             => frame'[p].pc = "done" /\ frame'[p].n_search = 0]_vars


\* C29: get_fallback_images is prefix-monotone in count: the list returned
\* for count c is a prefix of the list returned for c + 1.
C29_FallbackPrefixMonotone ==
    \A p \in Procs :
        Returned(p) /\ frame[p].fallback_needed > 0 =>
            LET c    == frame[p].fallback_needed
                next == get_fallback_images(frame[p].query, c + 1)
            IN  /\ Len(frame[p].fallbacks) <= Len(next)
                /\ frame[p].fallbacks = SubSeq(next, 1, Len(frame[p].fallbacks))

\* C29's case: four images asked for, which is the whole primary pool; the
\* list for five goes on into the next pool.
C29_Witness ==
    \E p \in Procs :
        /\ Returned(p) /\ frame[p].query = "desert canyon trip"
        /\ frame[p].fallback_needed = 4 /\ Len(frame[p].fallbacks) = 4
        /\ Len(get_fallback_images(frame[p].query, 5)) = 5


\* The positions of the ranking whose entry is an index in 0..n-1.
InRange(ranked, n) ==
    { i \in DOMAIN ranked : IsIndex(ranked[i]) /\ ranked[i].value \in 0..(n - 1) }

\* C30: in the walk every ranked index outside 0..n-1, too large or
\* negative, is skipped and contributes no image: such an index does not end
\* the walk with an exception, and every accumulated image is the image of a
\* candidate named by an index in 0..n-1.  If every index is outside the
\* range, nothing is accumulated, the cache is not written and the whole
\* result comes from get_fallback_images.
C30_OutOfRangeSkipped ==
    /\ [](\A p \in Procs :
             LET f      == frame[p]
                 ranked == f.ranked_indices
                 cands  == f.raw_photo_data
                 inside == InRange(ranked, Len(cands))
             IN  /\ f.pc = "raised" /\ ranked # << >> =>
                       \E i \in DOMAIN ranked : ranked[i].kind \notin { "int", "bool" }
                 /\ WalkEnded(p) =>
                       /\ Range(f.accumulated_images)
                            \subseteq { image_data(cands[ranked[i].value + 1]) : i \in inside }
                       /\ inside = {} =>
                             f.accumulated_images = << >> /\ f.pc = "pad")
    /\ [][\A p \in Procs :
             /\ WalkEnded(p) /\ frame'[p].pc = "done"
             /\ InRange(frame[p].ranked_indices, Len(frame[p].raw_photo_data)) = {}
             => /\ frame'[p].result = get_fallback_images(frame[p].query, frame[p].count)
                /\ frame'[p].cache_write = "none"
                /\ image_cache' = image_cache]_vars

====
